---- MODULE Spec2Model ----
(***************************************************************************)
(* Model of devflow-cli's AI-generation layer (CopilotService): the        *)
(* process invoker execCopilotPrompt, the quota-retry orchestrator         *)
(* execWithQuotaRetry, the response parsers, the deterministic fallback    *)
(* generators and the three public entry points.                           *)
(*                                                                         *)
(* Texts are TLA+ strings; a character is a string of length 1.  The       *)
(* backquote (U+0060) and the bullet (U+2022) cannot be written inside a   *)
(* TLA+ string literal, so BQ and BULLET below stand for them; the two     *)
(* characters that denote them are not used for anything else.             *)
(***************************************************************************)
EXTENDS Integers, Sequences, FiniteSets, TLC

VARIABLES
    pc,          \* control position of the running entry point
    call,        \* the entry point being run and its arguments
    configFile,  \* content of ~/.devflow/config.json
    argv,        \* argument vectors of the copilot subprocesses started so far
    outcome,     \* what the most recent subprocess did (environment input)
    invoked,     \* what execCopilotPrompt returned or threw for it
    configuredModel, \* execWithQuotaRetry's local `model': the configured model
    orch,        \* state of execWithQuotaRetry
    thrown,      \* message of the error caught by the entry point, if any
    console,     \* advisory lines printed so far
    result,      \* value returned by the entry point
    tmpFiles,    \* the files the program has left under /tmp: name -> content
    shell,       \* what /bin/bash was given to run and ran, in order
    cmd,         \* the run of `devflow pr create`: position and what it has seen
    cfg          \* the calls of ConfigService.set so far, and the last of them

vars == <<pc, call, configFile, argv, outcome, invoked, configuredModel, orch, thrown, console, result, tmpFiles, shell, cmd, cfg>>

-----------------------------------------------------------------------------
(* JavaScript string primitives.                                           *)

BQ     == "@"
BULLET == "^"

Ch(s, i) == SubSeq(s, i, i)

Min(a, b) == IF a < b THEN a ELSE b
Max(a, b) == IF a > b THEN a ELSE b

\* String.prototype.substring(start, end), 0-based, end exclusive.
substring(s, start, end) ==
    LET a  == Max(0, Min(start, Len(s)))
        b  == Max(0, Min(end, Len(s)))
        lo == Min(a, b)
        hi == Max(a, b)
    IN  IF lo = hi THEN "" ELSE SubSeq(s, lo + 1, hi)

\* s.slice(from) for 0 <= from.
DropFirst(s, n) == substring(s, n, Len(s))

Digits == "0123456789"

DigitChars == { "0", "1", "2", "3", "4", "5", "6", "7", "8", "9" }

LowerChars ==
    { "a", "b", "c", "d", "e", "f", "g", "h", "i", "j", "k", "l", "m",
      "n", "o", "p", "q", "r", "s", "t", "u", "v", "w", "x", "y", "z" }

\* The lower-case form of each upper-case letter.
UpperToLower ==
    [A |-> "a", B |-> "b", C |-> "c", D |-> "d", E |-> "e", F |-> "f",
     G |-> "g", H |-> "h", I |-> "i", J |-> "j", K |-> "k", L |-> "l",
     M |-> "m", N |-> "n", O |-> "o", P |-> "p", Q |-> "q", R |-> "r",
     S |-> "s", T |-> "t", U |-> "u", V |-> "v", W |-> "w", X |-> "x",
     Y |-> "y", Z |-> "z"]

IsDigit(c) == c \in DigitChars
IsLower(c) == c \in LowerChars
IsUpper(c) == c \in DOMAIN UpperToLower
IsAlnum(c) == IsDigit(c) \/ IsLower(c) \/ IsUpper(c)

\* \s of a JavaScript regular expression, and the line terminators that
\* the regular-expression dot does not match.
IsSpace(c)    == c \in {" ", "\t", "\n", "\r", "\f"}
IsLineTerm(c) == c \in {"\n", "\r"}

LowerOf(c) == IF IsUpper(c) THEN UpperToLower[c] ELSE c

\* The concatenation of a sequence of strings (by halves, so that the depth
\* of the evaluation grows with the logarithm of the length).
RECURSIVE concat(_)
concat(xs) ==
    IF Len(xs) = 0 THEN ""
    ELSE IF Len(xs) = 1 THEN xs[1]
    ELSE LET h == Len(xs) \div 2
         IN  concat(SubSeq(xs, 1, h)) \o concat(SubSeq(xs, h + 1, Len(xs)))

toLowerCase(s) == concat([i \in 1..Len(s) |-> LowerOf(Ch(s, i))])

\* pat occurs in s at 1-based position i.
MatchAt(s, i, pat) ==
    /\ i >= 1
    /\ i + Len(pat) - 1 <= Len(s)
    /\ SubSeq(s, i, i + Len(pat) - 1) = pat

startsWith(s, pat) == MatchAt(s, 1, pat)
endsWith(s, pat)   == MatchAt(s, Len(s) - Len(pat) + 1, pat)
includes(s, pat)   == \E i \in 1..(Len(s) + 1) : MatchAt(s, i, pat)

\* Number of leading characters of s that are whitespace.
spaceRun(s) ==
    LET Stops == { i \in 1..Len(s) : ~ IsSpace(Ch(s, i)) }
    IN  IF Stops = {} THEN Len(s)
        ELSE (CHOOSE i \in Stops : \A j \in Stops : i <= j) - 1

trimStart(s) == DropFirst(s, spaceRun(s))

trimEnd(s) ==
    LET Stops == { i \in 1..Len(s) : ~ IsSpace(Ch(s, i)) }
    IN  IF Stops = {} THEN ""
        ELSE substring(s, 0, CHOOSE i \in Stops : \A j \in Stops : j <= i)

trim(s) == trimEnd(trimStart(s))

\* s.split('\n'): the pieces between the newlines, in order (at least one).
RECURSIVE split(_)
split(s) ==
    IF ~ includes(s, "\n") THEN << s >>
    ELSE LET k == CHOOSE i \in 1..Len(s) :
                      /\ Ch(s, i) = "\n"
                      /\ \A j \in 1..(i - 1) : Ch(s, j) # "\n"
         IN  << substring(s, 0, k - 1) >> \o split(DropFirst(s, k))

\* lines.join('\n')
RECURSIVE join(_)
join(xs) ==
    IF xs = << >> THEN ""
    ELSE IF Len(xs) = 1 THEN xs[1]
    ELSE xs[1] \o "\n" \o join(Tail(xs))

\* s.replace(/c/g, '') for a single character c.
removeAll(s, c) ==
    concat([i \in 1..Len(s) |-> IF Ch(s, i) = c THEN "" ELSE Ch(s, i)])

\* Number-to-string conversion of a template literal, for n >= 0.
RECURSIVE toDecimal(_)
toDecimal(n) ==
    IF n < 10 THEN Ch(Digits, n + 1)
    ELSE toDecimal(n \div 10) \o Ch(Digits, (n % 10) + 1)

-----------------------------------------------------------------------------
(* Optional values (string | undefined) and thrown errors.                 *)

None    == [some |-> FALSE, val |-> ""]
Some(v) == [some |-> TRUE, val |-> v]

Returned(v) == [threw |-> FALSE, val |-> v]
Threw(msg)  == [threw |-> TRUE, val |-> msg]

-----------------------------------------------------------------------------
(* Model catalog.                                                          *)

FREE_MODELS == << "gpt-4.1", "gpt-5-mini" >>

\* A fallback that is the second free-tier identifier.
FREE_FALLBACK_MODEL_Second == FREE_MODELS[2]

FREE_FALLBACK_MODEL == FREE_MODELS[1]

DEFAULT_COPILOT_MODEL == "claude-sonnet-4.5"

\* MODEL_CATALOG: tag and premium-request multiplier (in hundredths) by id.
MODEL_CATALOG ==
    [m \in { "gpt-4.1", "gpt-5-mini", "claude-haiku-4.5", "gpt-5.1-codex-mini",
             "claude-sonnet-4", "claude-sonnet-4.5", "gpt-5", "gpt-5.1",
             "gpt-5.1-codex", "gpt-5.1-codex-max", "gpt-5.2", "gpt-5.2-codex",
             "gemini-3-pro-preview", "claude-opus-4.5" } |->
        CASE m \in { "gpt-4.1", "gpt-5-mini" } ->
                 [tag |-> "Free", multiplier |-> 0]
          [] m \in { "claude-haiku-4.5", "gpt-5.1-codex-mini" } ->
                 [tag |-> "Cheap", multiplier |-> 33]
          [] m = "claude-opus-4.5" ->
                 [tag |-> "Expensive", multiplier |-> 300]
          [] OTHER ->
                 [tag |-> "Balanced", multiplier |-> 100]]

isFreeModel(model) == \E i \in 1..Len(FREE_MODELS) : FREE_MODELS[i] = model

\* The line printModelCost writes before a call.
printModelCost(model) ==
    IF model \in DOMAIN MODEL_CATALOG
    THEN [kind |-> "modelCost", model |-> model,
          tag |-> MODEL_CATALOG[model].tag,
          cost |-> IF MODEL_CATALOG[model].multiplier = 0
                   THEN "free" ELSE "premium"]
    ELSE [kind |-> "modelCost", model |-> model,
          tag |-> "Unknown", cost |-> "unknown"]

\* MODEL_CATALOG: the description of each id.
MODEL_DESCRIPTIONS ==
    [m \in DOMAIN MODEL_CATALOG |->
        CASE m = "gpt-4.1" -> "Included with your plan, no extra cost"
          [] m = "gpt-5-mini" -> "Included with your plan, fast and lightweight"
          [] m = "claude-haiku-4.5" -> "Fastest responses, very low cost"
          [] m = "gpt-5.1-codex-mini" -> "Fast code generation, very low cost"
          [] m = "claude-sonnet-4" -> "Good quality, standard cost"
          [] m = "claude-sonnet-4.5" -> "Great quality and speed, recommended"
          [] m = "gpt-5" -> "Solid all-rounder, standard cost"
          [] m = "gpt-5.1" -> "Latest GPT, good quality, standard cost"
          [] m = "gpt-5.1-codex" -> "Optimized for code, standard cost"
          [] m = "gpt-5.1-codex-max" -> "Max context for code, standard cost"
          [] m = "gpt-5.2" -> "Newest GPT, standard cost"
          [] m = "gpt-5.2-codex" -> "Newest GPT for code, standard cost"
          [] m = "gemini-3-pro-preview" -> "Google model, good for general tasks"
          [] m = "claude-opus-4.5" -> "Best quality, slowest, costs 3x per prompt"]

-----------------------------------------------------------------------------
(* Model discovery: fetchAvailableModels.                                  *)

\* Position of the first occurrence of pat in s at or after from, 0 if none.
indexFrom(s, pat, from) ==
    LET Hits == { i \in from..Len(s) : MatchAt(s, i, pat) }
    IN  IF Hits = {} THEN 0 ELSE CHOOSE i \in Hits : \A j \in Hits : i <= j

\* stdout.match(/--model\s+<model>\s+[\s\S]*?\(choices:\s*([\s\S]*?)\)/):
\* the captured group of the leftmost match, or None.  At position i the
\* pattern matches when "--model", whitespace, "<model>" and whitespace are
\* followed, anywhere later, by "(choices:" and then by ")"; the group runs
\* from the end of the whitespace after the first such "(choices:" to the
\* first ")" after it.
choicesAt(s, i) ==
    LET w == spaceRun(DropFirst(s, i + 6))
        g == i + 7 + w
    IN  IF ~ (MatchAt(s, i, "--model") /\ w >= 1 /\ MatchAt(s, g, "<model>")
                  /\ g + 7 <= Len(s) /\ IsSpace(Ch(s, g + 7)))
        THEN None
        ELSE LET c == indexFrom(s, "(choices:", g + 8)
             IN  IF c = 0 THEN None
                 ELSE LET from == c + 9 + spaceRun(DropFirst(s, c + 8))
                          e    == indexFrom(s, ")", from)
                      IN  IF e = 0 THEN None
                          ELSE Some(substring(s, from - 1, e - 1))

matchModelSection(stdout) ==
    LET Starts == { i \in 1..Len(stdout) : choicesAt(stdout, i).some }
    IN  IF Starts = {} THEN None
        ELSE choicesAt(stdout, CHOOSE i \in Starts : \A j \in Starts : i <= j)

\* section.match(/"([^"]+)"/g)?.map(m => m.replace(/"/g, '')): the quoted,
\* non-empty texts of section, left to right; << >> stands for undefined.
RECURSIVE quotedIds(_)
quotedIds(section) ==
    LET Opens == { i \in 1..Len(section) :
                     /\ Ch(section, i) = "\""
                     /\ i + 1 <= Len(section)
                     /\ Ch(section, i + 1) # "\""
                     /\ indexFrom(section, "\"", i + 2) # 0 }
    IN  IF Opens = {} THEN << >>
        ELSE LET i == CHOOSE x \in Opens : \A y \in Opens : x <= y
                 j == indexFrom(section, "\"", i + 2)
             IN  << substring(section, i, j - 1) >>
                     \o quotedIds(DropFirst(section, j))

getFallbackModelIds == << "claude-sonnet-4.5", "claude-haiku-4.5", "gpt-4.1" >>

\* Lines 102-109: the descriptor of an id.
modelInfo(id) ==
    IF id \in DOMAIN MODEL_CATALOG
    THEN [id |-> id, tag |-> MODEL_CATALOG[id].tag,
          description |-> MODEL_DESCRIPTIONS[id]]
    ELSE [id |-> id, tag |-> "New", description |-> "Recently added model"]

\* What fetchAvailableModels returns when `copilot --help` ends as o.
fetchAvailableModels(o) ==
    LET section  == IF o.ok THEN matchModelSection(o.stdout) ELSE None
        parsed   == IF section.some THEN quotedIds(section.val) ELSE << >>
        modelIds == IF o.ok /\ section.some /\ Len(parsed) > 0
                    THEN parsed ELSE getFallbackModelIds
    IN  [i \in 1..Len(modelIds) |-> modelInfo(modelIds[i])]

-----------------------------------------------------------------------------
(* Failure classifier.                                                     *)

\* /a.*b/ : a, then any characters other than line terminators, then b.
DotStarBetween(s, a, b) ==
    \E i \in 1..Len(s) :
        /\ MatchAt(s, i, a)
        /\ \E j \in (i + Len(a))..Len(s) :
               /\ MatchAt(s, j, b)
               /\ \A k \in (i + Len(a))..(j - 1) : ~ IsLineTerm(Ch(s, k))

\* QUOTA_ERROR_PATTERNS.some(p => p.test(msg))
isQuotaError(msg) ==
    LET m == toLowerCase(msg)
    IN  \/ includes(m, "premium request")
        \/ includes(m, "rate limit")
        \/ includes(m, "quota")
        \/ DotStarBetween(m, "exceeded", "allowance")
        \/ DotStarBetween(m, "budget", "reached")
        \/ DotStarBetween(m, "limit", "reached")
        \/ includes(m, "too many requests")
        \/ includes(msg, "429")

-----------------------------------------------------------------------------
(* Log diagnostics: readLatestCopilotLog.                                  *)

\* Characters in increasing code-unit order (Array.prototype.sort's order).
CodeOrder ==
    " !\"#$%&'()*+,-./0123456789:;<=>?ABCDEFGHIJKLMNOPQRSTUVWXYZ[\\]_abcdefghijklmnopqrstuvwxyz{|}~"

CodeOf(c) ==
    IF \E i \in 1..Len(CodeOrder) : Ch(CodeOrder, i) = c
    THEN CHOOSE i \in 1..Len(CodeOrder) : Ch(CodeOrder, i) = c
    ELSE 0

\* a sorts before b, or a = b.
sortsBeforeOrEq(a, b) ==
    LET Diff == { i \in 1..Min(Len(a), Len(b)) : Ch(a, i) # Ch(b, i) }
    IN  IF Diff = {} THEN Len(a) <= Len(b)
        ELSE LET i == CHOOSE x \in Diff : \A y \in Diff : x <= y
             IN  CodeOf(Ch(a, i)) < CodeOf(Ch(b, i))

\* line.replace(/.*\[ERROR\]\s*/, ''): the leftmost match, the dot not
\* crossing a line terminator, .* and \s* greedy.
stripErrorTag(line) ==
    LET tag == "[ERROR]"
        Reaches(p, q) == /\ q >= p
                         /\ MatchAt(line, q, tag)
                         /\ \A k \in p..(q - 1) : ~ IsLineTerm(Ch(line, k))
        Starts == { p \in 1..Len(line) : \E q \in p..Len(line) : Reaches(p, q) }
    IN  IF Starts = {} THEN line
        ELSE LET p == CHOOSE x \in Starts : \A y \in Starts : x <= y
                 q == CHOOSE x \in p..Len(line) :
                          /\ Reaches(p, x)
                          /\ \A y \in p..Len(line) : Reaches(p, y) => y <= x
             IN  substring(line, 0, p - 1)
                     \o trimStart(DropFirst(line, q + Len(tag) - 1))

IsTokenChar(c)    == IsAlnum(c)
IsPatTokenChar(c) == IsAlnum(c) \/ c = "_"

\* Length of the longest prefix of s matching [a-zA-Z0-9]* .
tokenRun(s) ==
    LET Stops == { i \in 1..Len(s) : ~ IsTokenChar(Ch(s, i)) }
    IN  IF Stops = {} THEN Len(s)
        ELSE (CHOOSE i \in Stops : \A j \in Stops : i <= j) - 1

\* Length of the longest prefix of s matching [a-zA-Z0-9_]* .
patTokenRun(s) ==
    LET Stops == { i \in 1..Len(s) : ~ IsPatTokenChar(Ch(s, i)) }
    IN  IF Stops = {} THEN Len(s)
        ELSE (CHOOSE i \in Stops : \A j \in Stops : i <= j) - 1

\* Length of the match of
\* /ghp_[a-zA-Z0-9]+|gho_[a-zA-Z0-9]+|github_pat_[a-zA-Z0-9_]+/ at position i
\* of s, 0 when there is none.
tokenMatchAt(s, i) ==
    IF (MatchAt(s, i, "ghp_") \/ MatchAt(s, i, "gho_"))
           /\ tokenRun(DropFirst(s, i + 3)) > 0
    THEN 4 + tokenRun(DropFirst(s, i + 3))
    ELSE IF MatchAt(s, i, "github_pat_") /\ patTokenRun(DropFirst(s, i + 10)) > 0
    THEN 11 + patTokenRun(DropFirst(s, i + 10))
    ELSE 0

\* s.replace(/ghp_[a-zA-Z0-9]+|gho_[a-zA-Z0-9]+|github_pat_[a-zA-Z0-9_]+/g, '***'):
\* the leftmost match is replaced, then the text after it is scanned.
RECURSIVE redactTokens(_)
redactTokens(s) ==
    LET Hits == { i \in 1..Len(s) : tokenMatchAt(s, i) > 0 }
    IN  IF Hits = {} THEN s
        ELSE LET i == CHOOSE x \in Hits : \A y \in Hits : x <= y
             IN  substring(s, 0, i - 1) \o "***"
                     \o redactTokens(DropFirst(s, i - 1 + tokenMatchAt(s, i)))

LOG_LINE_LIMIT == 200

isErrorLine(line) == includes(line, "[ERROR]")

nonEmpty(line) == Len(line) > 0

RECURSIVE mapStripErrorTag(_)
mapStripErrorTag(lines) ==
    IF lines = << >> THEN << >>
    ELSE << trim(stripErrorTag(lines[1])) >> \o mapStripErrorTag(Tail(lines))

errorLinesOf(content) ==
    SelectSeq(mapStripErrorTag(SelectSeq(split(content), isErrorLine)), nonEmpty)

isModelListError(line) == includes(toLowerCase(line), "failed to list models")

\* modelError.match(/(\d{3})\s*$/): the last three characters when they are
\* digits (the line has been trimmed), else ''.
statusOf(line) ==
    LET n == Len(line)
    IN  IF n >= 3 /\ \A k \in (n - 2)..n : IsDigit(Ch(line, k))
        THEN SubSeq(line, n - 2, n)
        ELSE ""

\* logs: [exists |-> the directory can be listed,
\*        files  |-> set of [name, content, readable]]
\* The log reader without the precedence of the model-list error.
readLatestCopilotLog_LastLine(logs) ==
    IF ~ logs.exists THEN None
    ELSE
    LET files == { f \in logs.files :
                      startsWith(f.name, "process-") /\ endsWith(f.name, ".log") }
    IN  IF files = {} THEN None
        ELSE
        LET latest == CHOOSE f \in files :
                          \A g \in files : sortsBeforeOrEq(g.name, f.name)
            errorLines == errorLinesOf(latest.content)
        IN  IF ~ latest.readable THEN None
            ELSE IF errorLines = << >> THEN None
            ELSE LET sanitized == redactTokens(errorLines[Len(errorLines)])
                 IN  IF Len(sanitized) < LOG_LINE_LIMIT THEN Some(sanitized) ELSE None

readLatestCopilotLog(logs) ==
    IF ~ logs.exists THEN None
    ELSE
    LET files == { f \in logs.files :
                      startsWith(f.name, "process-") /\ endsWith(f.name, ".log") }
    IN  IF files = {} THEN None
        ELSE
        LET latest == CHOOSE f \in files :
                          \A g \in files : sortsBeforeOrEq(g.name, f.name)
            errorLines == errorLinesOf(latest.content)
            modelErrors == SelectSeq(errorLines, isModelListError)
        IN  IF ~ latest.readable THEN None
            ELSE IF errorLines = << >> THEN None
            ELSE IF modelErrors # << >>
                 THEN LET status == statusOf(modelErrors[1])
                      IN  IF status = "403"
                          THEN Some("Copilot access denied (403). Your subscription may have expired or your authentication needs refreshing. Run: copilot auth login")
                          ELSE IF status = "401"
                          THEN Some("Copilot authentication failed (401). Run: copilot auth login")
                          ELSE Some("Copilot model loading failed: " \o modelErrors[1])
            ELSE LET sanitized == redactTokens(errorLines[Len(errorLines)])
                 IN  IF Len(sanitized) < LOG_LINE_LIMIT THEN Some(sanitized) ELSE None

-----------------------------------------------------------------------------
(* Process invoker: execCopilotPrompt.                                     *)

\* The argument vector handed to execFile('copilot', args).
copilotArgs(prompt, model) ==
    (IF model # "" THEN << "--model", model >> ELSE << >>)
        \o << "-s", "--prompt", prompt >>

STDERR_LIMIT == 200

\* /token|auth|key|secret|password/i.test(stderr)
\* The keyword test without the i flag.
hasSensitiveWord_CaseSensitive(stderr) ==
    \/ includes(stderr, "token")
    \/ includes(stderr, "auth")
    \/ includes(stderr, "key")
    \/ includes(stderr, "secret")
    \/ includes(stderr, "password")

hasSensitiveWord(stderr) ==
    LET m == toLowerCase(stderr)
    IN  \/ includes(m, "token")
        \/ includes(m, "auth")
        \/ includes(m, "key")
        \/ includes(m, "secret")
        \/ includes(m, "password")

\* What execCopilotPrompt returns or throws when the subprocess ends as o:
\*   o.ok      the process exited with status 0 within the limits
\*   o.stdout  its standard output
\*   o.stderr  its captured standard error ('' when there is none)
\*   o.code    error.code: an exit status, an errno name, or '' for null
\*   o.killed  error.killed
\*   o.logs    the state of ~/.copilot/logs when the process has ended
\* The invoker reading the log whether or not stderr is empty.
execCopilotPrompt_LogAlways(o) ==
    LET stderr   == trim(o.stderr)
        exitCode == o.code
        logDiag  == readLatestCopilotLog(o.logs)
        safeStderr ==
            IF Len(stderr) > 0 /\ Len(stderr) < STDERR_LIMIT /\ ~ hasSensitiveWord(stderr)
            THEN stderr
            ELSE "exit code " \o (IF exitCode # "" THEN exitCode ELSE "unknown")
                     \o ". Check copilot auth: run \"copilot auth login\""
    IN  IF o.ok THEN Returned(o.stdout)
        ELSE IF o.code = "ERR_CHILD_PROCESS_STDIO_MAXBUFFER"
             THEN Threw("Copilot response exceeded buffer size")
        ELSE IF o.killed
             THEN Threw("Copilot request timed out (60s). Try a faster model like gpt-4.1 or claude-haiku-4.5")
        ELSE IF logDiag.some /\ logDiag.val # ""
             THEN Threw(logDiag.val)
        ELSE Threw("Copilot CLI error: " \o safeStderr)

\* The invoker with the overflow and timeout tests after the handling of
\* stderr and of the log.
execCopilotPrompt_ExitFirst(o) ==
    LET stderr   == trim(o.stderr)
        exitCode == o.code
        logDiag  == readLatestCopilotLog(o.logs)
    IN  IF o.ok THEN Returned(o.stdout)
        ELSE IF Len(stderr) = 0 /\ logDiag.some /\ logDiag.val # ""
             THEN Threw(logDiag.val)
        ELSE IF Len(stderr) > 0 /\ Len(stderr) < STDERR_LIMIT /\ ~ hasSensitiveWord(stderr)
             THEN Threw("Copilot CLI error: " \o stderr)
        ELSE IF o.code = "ERR_CHILD_PROCESS_STDIO_MAXBUFFER"
             THEN Threw("Copilot response exceeded buffer size")
        ELSE IF o.killed
             THEN Threw("Copilot request timed out (60s). Try a faster model like gpt-4.1 or claude-haiku-4.5")
        ELSE Threw("Copilot CLI error: exit code "
                       \o (IF exitCode # "" THEN exitCode ELSE "unknown")
                       \o ". Check copilot auth: run \"copilot auth login\"")

execCopilotPrompt(o) ==
    LET stderr   == trim(o.stderr)
        exitCode == o.code
        logDiag  == readLatestCopilotLog(o.logs)
        safeStderr ==
            IF Len(stderr) > 0 /\ Len(stderr) < STDERR_LIMIT /\ ~ hasSensitiveWord(stderr)
            THEN stderr
            ELSE "exit code " \o (IF exitCode # "" THEN exitCode ELSE "unknown")
                     \o ". Check copilot auth: run \"copilot auth login\""
    IN  IF o.ok THEN Returned(o.stdout)
        ELSE IF o.code = "ERR_CHILD_PROCESS_STDIO_MAXBUFFER"
             THEN Threw("Copilot response exceeded buffer size")
        ELSE IF o.killed
             THEN Threw("Copilot request timed out (60s). Try a faster model like gpt-4.1 or claude-haiku-4.5")
        ELSE IF Len(stderr) = 0 /\ logDiag.some /\ logDiag.val # ""
             THEN Threw(logDiag.val)
        ELSE Threw("Copilot CLI error: " \o safeStderr)

-----------------------------------------------------------------------------
(* ConfigService.                                                          *)

\* configFile.state: "missing" (no file), "unparsable" (not JSON),
\* "null" (the JSON text null) or "object"; configFile.obj: the stored object,
\* a function from the keys present to their values.
NoKeys == [k \in {} |-> ""]

\* load(): the parsed object, {} when the file is missing or unreadable.
\* isNull marks a file whose JSON value is null.
load(cf) ==
    [isNull |-> cf.state = "null",
     obj    |-> IF cf.state = "object" THEN cf.obj ELSE NoKeys]

\* get(key): config[key]; throws a TypeError when load() returned null.
get(cf, key) ==
    LET config == load(cf)
    IN  IF config.isNull
        THEN Threw("Cannot read properties of null (reading '" \o key \o "')")
        ELSE Returned(IF key \in DOMAIN config.obj
                      THEN Some(config.obj[key]) ELSE None)

\* getCopilotModel(): get('copilotModel') || DEFAULT_COPILOT_MODEL
getCopilotModel(cf) ==
    LET v == get(cf, "copilotModel")
    IN  IF v.threw THEN v
        ELSE Returned(IF v.val.some /\ v.val.val # ""
                      THEN v.val.val ELSE DEFAULT_COPILOT_MODEL)

-----------------------------------------------------------------------------
(* Commit messages: stripMarkdown, parseCommitMessages, fallback.          *)

\* s.replace(/pat/g, rep) for a literal pat: left to right, non-overlapping.
RECURSIVE replaceAll(_, _, _)
replaceAll(s, pat, rep) ==
    LET Hits == { i \in 1..Len(s) : MatchAt(s, i, pat) }
    IN  IF Hits = {} THEN s
        ELSE LET i == CHOOSE x \in Hits : \A y \in Hits : x <= y
             IN  substring(s, 0, i - 1) \o rep
                     \o replaceAll(DropFirst(s, i - 1 + Len(pat)), pat, rep)

hasLineTerm(s) == \E k \in 1..Len(s) : IsLineTerm(Ch(s, k))

\* text.replace(/^[-•]\s+/, '')
stripListMarker(text) ==
    IF Len(text) >= 2 /\ Ch(text, 1) \in {"-", BULLET} /\ IsSpace(Ch(text, 2))
    THEN trimStart(DropFirst(text, 1))
    ELSE text

stripMarkdown(text) ==
    trim(stripListMarker(
        replaceAll(replaceAll(replaceAll(text, "**", ""), "*", ""), BQ, "")))

\* Length of the longest prefix of s matching \d* .
digitRun(s) ==
    LET Stops == { i \in 1..Len(s) : ~ IsDigit(Ch(s, i)) }
    IN  IF Stops = {} THEN Len(s)
        ELSE (CHOOSE i \in Stops : \A j \in Stops : i <= j) - 1

\* line.match(/^\d+[\.)]\s*(.+)$/): the captured group, or None.
matchNumbered(line) ==
    LET d    == digitRun(line)
        rest == trimStart(DropFirst(line, d + 1))
    IN  IF d >= 1 /\ Len(line) > d /\ Ch(line, d + 1) \in {".", ")"}
           /\ rest # "" /\ ~ hasLineTerm(rest)
        THEN Some(rest)
        ELSE None

COMMIT_TYPES == << "feat", "fix", "docs", "style", "refactor", "test", "chore",
                   "perf", "ci", "build" >>

BULLET_TYPES == << "feat", "fix", "docs", "style", "refactor", "test", "chore" >>

\* ': ' followed by at least one character the dot matches.
colonThenText(s) ==
    startsWith(s, ": ") /\ Len(s) >= 3 /\ ~ IsLineTerm(Ch(s, 3))

\* (\(.+?\))?: .+ at the start of s.
scopeColonText(s) ==
    \/ colonThenText(s)
    \/ /\ startsWith(s, "(")
       /\ \E k \in 3..Len(s) :
              /\ Ch(s, k) = ")"
              /\ \A j \in 2..(k - 1) : ~ IsLineTerm(Ch(s, j))
              /\ colonThenText(DropFirst(s, k))

\* /^(feat|fix|docs|style|refactor|test|chore|perf|ci|build)(\(.+?\))?: .+/i
matchConventional(line) ==
    \E i \in 1..Len(COMMIT_TYPES) :
        /\ startsWith(toLowerCase(line), COMMIT_TYPES[i])
        /\ scopeColonText(DropFirst(line, Len(COMMIT_TYPES[i])))

\* line.match(/^[-*]\s+(.+)$/): the captured group, or None.
matchBullet(line) ==
    LET rest == trimStart(DropFirst(line, 1))
    IN  IF Len(line) >= 2 /\ Ch(line, 1) \in {"-", "*"} /\ IsSpace(Ch(line, 2))
           /\ rest # "" /\ ~ hasLineTerm(rest)
        THEN Some(rest)
        ELSE None

\* text.match(/^(feat|fix|docs|style|refactor|test|chore)/i)
startsWithBulletType(text) ==
    \E i \in 1..Len(BULLET_TYPES) : startsWith(toLowerCase(text), BULLET_TYPES[i])

RECURSIVE mapTrim(_)
mapTrim(lines) ==
    IF lines = << >> THEN << >> ELSE << trim(lines[1]) >> \o mapTrim(Tail(lines))

\* The messages pushed for the lines, in order.
RECURSIVE collectMessages(_)
collectMessages(lines) ==
    IF lines = << >> THEN << >>
    ELSE LET line == lines[1]
             m1   == matchNumbered(line)
             m3   == matchBullet(line)
             here == IF m1.some THEN << stripMarkdown(trim(m1.val)) >>
                     ELSE IF matchConventional(line) THEN << stripMarkdown(line) >>
                     ELSE IF m3.some /\ startsWithBulletType(m3.val)
                          THEN << stripMarkdown(trim(m3.val)) >>
                     ELSE << >>
         IN  here \o collectMessages(Tail(lines))

MAX_MESSAGES == 3

\* The last three of the messages instead of the first three.
parseCommitMessages_LastThree(response) ==
    LET lines    == SelectSeq(mapTrim(split(response)), nonEmpty)
        messages == collectMessages(lines)
    IN  SubSeq(messages, Max(1, Len(messages) - MAX_MESSAGES + 1), Len(messages))

parseCommitMessages(response) ==
    LET lines    == SelectSeq(mapTrim(split(response)), nonEmpty)
        messages == collectMessages(lines)
    IN  SubSeq(messages, 1, Min(Len(messages), MAX_MESSAGES))

startsWithPlus(l)  == startsWith(l, "+")
startsWithMinus(l) == startsWith(l, "-")

\* The fallback with the file-header lines (+++, ---) left out of the counts.
generateFallbackMessages_NoHeaders(diff) ==
    LET lines   == split(diff)
        added   == Len(SelectSeq(lines, startsWithPlus))
                       - Len(SelectSeq(lines, LAMBDA l : startsWith(l, "+++")))
        removed == Len(SelectSeq(lines, startsWithMinus))
                       - Len(SelectSeq(lines, LAMBDA l : startsWith(l, "---")))
    IN  << "feat: update files (+" \o toDecimal(added) \o " -" \o toDecimal(removed) \o ")",
           "fix: improve code quality",
           "chore: update documentation" >>

generateFallbackMessages(diff) ==
    LET lines   == split(diff)
        added   == Len(SelectSeq(lines, startsWithPlus))
        removed == Len(SelectSeq(lines, startsWithMinus))
    IN  << "feat: update files (+" \o toDecimal(added) \o " -" \o toDecimal(removed) \o ")",
           "fix: improve code quality",
           "chore: update documentation" >>

DIFF_PROMPT_LIMIT == 2000

commitPrompt(diff) ==
    "Generate 3 commit messages for these git changes. Use conventional commits format (feat/fix/chore/etc).\n  \n  Changes:\n  "
        \o substring(diff, 0, DIFF_PROMPT_LIMIT)
        \o "\n  \n  Respond with 3 options:\n  1. [first message]\n  2. [second message]\n  3. [third message]\n  \n  Keep each under 72 characters."

\* generateCommitMessage after execWithQuotaRetry has returned stdout.
commitFromStdout(diff, stdout) ==
    LET messages == parseCommitMessages(stdout)
    IN  IF Len(messages) > 0 THEN messages ELSE generateFallbackMessages(diff)

-----------------------------------------------------------------------------
(* Pull-request descriptions: parsePRDescription, smart fallback.          *)

\* Positions of the case-insensitive marker in response (1-based).
markerAt(response, i, marker) == MatchAt(toLowerCase(response), i, marker)

\* The characters the dot matches from the start of s: up to the first
\* line terminator.
untilLineTerm(s) ==
    LET Stops == { i \in 1..Len(s) : IsLineTerm(Ch(s, i)) }
    IN  IF Stops = {} THEN s
        ELSE substring(s, 0, (CHOOSE i \in Stops : \A j \in Stops : i <= j) - 1)

\* \s*(.+) applied to s: \s* is greedy and gives characters back only when
\* nothing is left for the group.
lastDotStart(s) ==
    \* greatest k such that s[1..k] is all whitespace and s[k+1] exists and
    \* is matched by the dot; -1 if there is none
    LET Ok(k) == /\ k < Len(s)
                 /\ \A j \in 1..k : IsSpace(Ch(s, j))
                 /\ ~ IsLineTerm(Ch(s, k + 1))
        Ks == { k \in 0..Len(s) : Ok(k) }
    IN  IF Ks = {} THEN -1 ELSE CHOOSE k \in Ks : \A j \in Ks : j <= k

\* response.match(/TITLE:\s*(.+)/i): the captured group, or None.
matchTitle(response) ==
    LET marker == "title:"
        After(i) == DropFirst(response, i + Len(marker) - 1)
        Hits == { i \in 1..Len(response) :
                     markerAt(response, i, marker) /\ lastDotStart(After(i)) >= 0 }
    IN  IF Hits = {} THEN None
        ELSE LET i == CHOOSE x \in Hits : \A y \in Hits : x <= y
             IN  Some(untilLineTerm(DropFirst(After(i), lastDotStart(After(i)))))

\* response.match(/BODY:\s*([\s\S]+)/i): the captured group, or None.
matchBody(response) ==
    LET marker == "body:"
        After(i) == DropFirst(response, i + Len(marker) - 1)
        Hits == { i \in 1..Len(response) :
                     markerAt(response, i, marker) /\ After(i) # "" }
    IN  IF Hits = {} THEN None
        ELSE LET i    == CHOOSE x \in Hits : \A y \in Hits : x <= y
                 rest == After(i)
             IN  Some(IF trimStart(rest) # "" THEN trimStart(rest)
                      ELSE Ch(rest, Len(rest)))

notBlank(l) == Len(trim(l)) > 0

parsePRDescription(response) ==
    LET titleMatch == matchTitle(response)
        bodyMatch  == matchBody(response)
        lines      == SelectSeq(split(response), notBlank)
        restLines  == IF Len(lines) > 1 THEN join(Tail(lines)) ELSE ""
    IN  IF titleMatch.some /\ bodyMatch.some
        THEN [title |-> stripMarkdown(trim(titleMatch.val)),
              body  |-> trim(bodyMatch.val)]
        ELSE [title |-> stripMarkdown(IF lines # << >> /\ lines[1] # ""
                                      THEN lines[1] ELSE "Update"),
              body  |-> IF restLines # "" THEN restLines
                        ELSE "Pull request description"]

isFeat(m)  == startsWith(m, "feat")
isFix(m)   == startsWith(m, "fix")
isChore(m) == startsWith(m, "chore")
\* A filter for the Other Changes that lets every commit through.
isOther_Always(m) == TRUE

isOther(m) == ~ (isFeat(m) \/ isFix(m) \/ isChore(m))

\* commits.forEach(c => body += `- ${c.message}\n`)
RECURSIVE bulletList(_)
bulletList(messages) ==
    IF messages = << >> THEN ""
    ELSE "- " \o messages[1] \o "\n" \o bulletList(Tail(messages))

\* types.join(', ')
RECURSIVE joinComma(_)
joinComma(xs) ==
    IF xs = << >> THEN ""
    ELSE IF Len(xs) = 1 THEN xs[1]
    ELSE xs[1] \o ", " \o joinComma(Tail(xs))

section(heading, messages) ==
    IF Len(messages) > 0
    THEN "### " \o heading \o "\n" \o bulletList(messages) \o "\n"
    ELSE ""

\* commits: the sequence of the commits' messages.
generateSmartFallback(commits, issueContext) ==
    LET title    == IF Len(commits) > 0 /\ commits[1] # "" THEN commits[1] ELSE "Update"
        features == SelectSeq(commits, isFeat)
        fixes    == SelectSeq(commits, isFix)
        chores   == SelectSeq(commits, isChore)
        others   == SelectSeq(commits, isOther)
        types    == (IF Len(features) > 0
                     THEN << toDecimal(Len(features)) \o " feature(s)" >> ELSE << >>)
                 \o (IF Len(fixes) > 0
                     THEN << toDecimal(Len(fixes)) \o " fix(es)" >> ELSE << >>)
                 \o (IF Len(chores) > 0
                     THEN << toDecimal(Len(chores)) \o " chore(s)" >> ELSE << >>)
        summary  == IF Len(commits) = 1 THEN commits[1]
                    ELSE "This PR includes " \o toDecimal(Len(commits)) \o " commits with "
                         \o (IF joinComma(types) # "" THEN joinComma(types)
                             ELSE "various changes")
                         \o "."
    IN  [title |-> title,
         body  |-> "## Summary\n\n" \o summary \o "\n\n## Changes\n\n"
                   \o section("Features", features)
                   \o section("Fixes", fixes)
                   \o section("Chores", chores)
                   \o section("Other Changes", others)
                   \o (IF issueContext # "" THEN "\n" \o issueContext \o "\n" ELSE "")
                   \o "\n## Testing\n\nPlease test these changes in your environment.\n"]

RECURSIVE commitLines(_)
commitLines(commits) ==
    IF commits = << >> THEN << >>
    ELSE << "- " \o commits[1] >> \o commitLines(Tail(commits))

prPrompt(commits) ==
    "Generate a PR title and description for these commits:\n"
        \o join(commitLines(commits))
        \o "\n\nFormat:\nTITLE: [title]\nBODY:\n[description]"

MIN_BODY_LENGTH == 50

\* A threshold that accepts a body of exactly MIN_BODY_LENGTH characters.
isUsable_Inclusive(parsed) ==
    parsed.title # "" /\ parsed.body # "" /\ Len(parsed.body) >= MIN_BODY_LENGTH

\* if (parsed.title && parsed.body && parsed.body.length > 50)
\* The usability test on the title alone.
isUsable_TitleOnly(parsed) == parsed.title # ""

isUsable(parsed) ==
    parsed.title # "" /\ parsed.body # "" /\ Len(parsed.body) > MIN_BODY_LENGTH

\* generatePRDescription after execWithQuotaRetry has returned stdout.
prFromStdout(commits, issueContext, stdout) ==
    LET parsed == parsePRDescription(stdout)
    IN  IF isUsable(parsed) THEN parsed
        ELSE generateSmartFallback(commits, issueContext)

-----------------------------------------------------------------------------
(* Branch names: sanitizeBranchName, generateFallbackBranchName.           *)

BRANCH_TYPES == { "feature", "fix", "chore", "docs", "refactor" }

MAX_BRANCH_LENGTH == 50

IsSlugChar(c) == IsLower(c) \/ IsDigit(c) \/ c = "-"

\* name.replace(/[^a-z0-9-]/g, '-')
hyphenateOthers(s) ==
    concat([i \in 1..Len(s) |-> IF IsSlugChar(Ch(s, i)) THEN Ch(s, i) ELSE "-"])

\* name.replace(/-+/g, '-'): of each run of hyphens one is kept.
collapseHyphens(s) ==
    concat([i \in 1..Len(s) |->
               IF Ch(s, i) = "-" /\ i < Len(s) /\ Ch(s, i + 1) = "-"
               THEN "" ELSE Ch(s, i)])

\* name.replace(/-$/, '')
stripTrailingHyphen(s) ==
    IF endsWith(s, "-") /\ s # "" THEN substring(s, 0, Len(s) - 1) ELSE s

\* name.replace(/^-|-$/g, '')
stripEdgeHyphens(s) ==
    stripTrailingHyphen(IF startsWith(s, "-") THEN DropFirst(s, 1) ELSE s)

\* The shared tail of both generators: limit the length and reassemble.
limitAndAssemble(name, type, issuePrefix) ==
    LET maxLength == MAX_BRANCH_LENGTH - Len(type) - Len(issuePrefix) - 1
        limited   == IF Len(name) > maxLength
                     THEN stripTrailingHyphen(substring(name, 0, maxLength))
                     ELSE name
    IN  type \o "/" \o issuePrefix \o limited

\* name.replace(new RegExp(`^${type}/`, 'i'), '')
stripTypePrefix(name, type) ==
    IF startsWith(toLowerCase(name), toLowerCase(type) \o "/")
    THEN DropFirst(name, Len(type) + 1)
    ELSE name

sanitizeBranchName(name, type, issuePrefix) ==
    limitAndAssemble(
        stripEdgeHyphens(collapseHyphens(hyphenateOthers(
            toLowerCase(stripTypePrefix(name, type))))),
        type, issuePrefix)

\* description.replace(/[^a-z0-9\s-]/g, '')
dropOthers(s) ==
    concat([i \in 1..Len(s) |->
               IF IsSlugChar(Ch(s, i)) \/ IsSpace(Ch(s, i)) THEN Ch(s, i) ELSE ""])

\* name.replace(/\s+/g, '-'): each run of whitespace becomes one hyphen.
hyphenateSpaces(s) ==
    concat([i \in 1..Len(s) |->
               IF ~ IsSpace(Ch(s, i)) THEN Ch(s, i)
               ELSE IF i > 1 /\ IsSpace(Ch(s, i - 1)) THEN "" ELSE "-"])

issuePrefixOf(issueNumber) ==
    IF issueNumber # "" THEN issueNumber \o "-" ELSE ""

\* The fallback with the slugging of sanitizeBranchName.
generateFallbackBranchName_Replacing(description, type, issueNumber) ==
    limitAndAssemble(
        stripEdgeHyphens(collapseHyphens(hyphenateOthers(toLowerCase(description)))),
        type, issuePrefixOf(issueNumber))

generateFallbackBranchName(description, type, issueNumber) ==
    limitAndAssemble(
        stripEdgeHyphens(collapseHyphens(hyphenateSpaces(dropOthers(
            toLowerCase(description))))),
        type, issuePrefixOf(issueNumber))

\* branchName.replace(/^["']|["']$/g, '')
stripQuotes(s) ==
    LET a == IF s # "" /\ Ch(s, 1) \in {"\"", "'"} THEN DropFirst(s, 1) ELSE s
    IN  IF a # "" /\ Ch(a, Len(a)) \in {"\"", "'"}
        THEN substring(a, 0, Len(a) - 1) ELSE a

branchPrompt(description, type, issueNumber) ==
    "Generate a git branch name from this description: \"" \o description
        \o "\"\n  \n  Branch type: " \o type \o "\n  "
        \o (IF issueNumber # "" THEN "Issue number: " \o issueNumber ELSE "")
        \o "\n  \n  Rules:\n  - Use format: " \o type \o "/" \o issuePrefixOf(issueNumber)
        \o "[descriptive-name]\n  - Use kebab-case (lowercase with hyphens)\n  - Keep it concise (max 50 chars)\n  - Be descriptive but brief\n  - Only alphanumeric and hyphens\n  \n  Example: feature/123-add-user-auth\n  \n  Respond with ONLY the branch name, nothing else."

\* generateBranchName after execWithQuotaRetry has returned stdout.
branchFromStdout(type, issueNumber, stdout) ==
    LET firstLine == trim(split(trim(stdout))[1])
        unfenced  == trim(replaceAll(replaceAll(firstLine, BQ \o BQ \o BQ, ""), BQ, ""))
    IN  sanitizeBranchName(stripQuotes(unfenced), type, issuePrefixOf(issueNumber))

-----------------------------------------------------------------------------
(* The shell-based CopilotService of src/services/copilot.ts: the prompt   *)
(* reaches the tool through a command line run by /bin/bash.               *)

\* The path of the file that stages the commit prompt; now is Date.now().
tmpFileOf(now) == "/tmp/devflow-commit-" \o now \o ".txt"

\* `copilot --prompt "$(cat ${tmpFile})"`
commitCommandLine(tmpFile) == "copilot --prompt \"$(cat " \o tmpFile \o ")\""

\* prompt.replace(/\\/g, '\\\\').replace(/"/g, '\\"').replace(/\n/g, '\\n')
escapePrompt(prompt) ==
    replaceAll(replaceAll(replaceAll(prompt, "\\", "\\\\"), "\"", "\\\""),
               "\n", "\\n")

\* `copilot --prompt "${escapedPrompt}"`
prCommandLine(prompt) == "copilot --prompt \"" \o escapePrompt(prompt) \o "\""

\* What bash makes of a command substitution's output: the trailing
\* newlines are removed.
stripTrailingNewlines(s) ==
    LET Keep == { i \in 1..Len(s) : Ch(s, i) # "\n" }
    IN  IF Keep = {} THEN ""
        ELSE substring(s, 0, CHOOSE i \in Keep : \A j \in Keep : j <= i)

\* The output of a command run by a substitution: cat of an existing file
\* gives its content; any other command prints what the environment (subst)
\* makes it print.
substitutionOutput(command, files, subst) ==
    IF startsWith(command, "cat ") /\ DropFirst(command, 4) \in DOMAIN files
    THEN stripTrailingNewlines(files[DropFirst(command, 4)])
    ELSE subst

IsNameStart(c) == IsLower(c) \/ IsUpper(c) \/ c = "_"

\* Length of the longest prefix of s made of letters, digits and "_".
nameRun(s) ==
    LET Stops == { i \in 1..Len(s) : ~ (IsAlnum(Ch(s, i)) \/ Ch(s, i) = "_") }
    IN  IF Stops = {} THEN Len(s)
        ELSE (CHOOSE i \in Stops : \A j \in Stops : i <= j) - 1

\* The result of bash reading a double-quoted text: ok (no syntax error),
\* word (the text of the argument so far), ran (the commands run by
\* substitutions, in order), rest (what follows the closing quote).
Quoted(ok, word, ran, rest) == [ok |-> ok, word |-> word, ran |-> ran, rest |-> rest]

\* q with the text pre before its word and the commands ran before its own.
after(pre, ran, q) == Quoted(q.ok, pre \o q.word, ran \o q.ran, q.rest)

\* bash reads s, the text after an opening double quote.  Inside double
\* quotes the backslash quotes only $, backquote, double quote, backslash
\* and newline; $(...) and backquotes run a command and are replaced by its
\* output; $name and $digit are replaced by the parameter's value (unset:
\* empty).
RECURSIVE expandQuoted(_, _, _)
expandQuoted(s, files, subst) ==
    LET Special == { i \in 1..Len(s) : Ch(s, i) \in { "\\", "$", BQ, "\"" } }
    IN  IF Special = {} THEN Quoted(FALSE, s, << >>, "")
        ELSE
        LET k    == CHOOSE i \in Special : \A j \in Special : i <= j
            pre  == substring(s, 0, k - 1)
            c    == Ch(s, k)
            rest == DropFirst(s, k)
            n    == Ch(rest, 1)
            closeOf(t, mark) ==
                LET Hits == { i \in 1..Len(t) : Ch(t, i) = mark }
                IN  IF Hits = {} THEN 0
                    ELSE CHOOSE i \in Hits : \A j \in Hits : i <= j
        IN  CASE c = "\"" -> Quoted(TRUE, pre, << >>, rest)
              [] c = "\\" ->
                   IF rest = "" THEN Quoted(FALSE, pre \o "\\", << >>, "")
                   ELSE IF n \in { "$", BQ, "\"", "\\" }
                   THEN after(pre \o n, << >>,
                              expandQuoted(DropFirst(rest, 1), files, subst))
                   ELSE IF n = "\n"
                   THEN after(pre, << >>,
                              expandQuoted(DropFirst(rest, 1), files, subst))
                   ELSE after(pre \o "\\" \o n, << >>,
                              expandQuoted(DropFirst(rest, 1), files, subst))
              [] c = BQ ->
                   LET e == closeOf(rest, BQ)
                   IN  IF e = 0 THEN Quoted(FALSE, pre, << >>, "")
                       ELSE LET command == substring(rest, 0, e - 1)
                            IN  after(pre \o substitutionOutput(command, files, subst),
                                      << command >>,
                                      expandQuoted(DropFirst(rest, e), files, subst))
              [] c = "$" /\ n = "(" ->
                   LET e == closeOf(rest, ")")
                   IN  IF e = 0 THEN Quoted(FALSE, pre, << >>, "")
                       ELSE LET command == substring(rest, 1, e - 1)
                            IN  after(pre \o substitutionOutput(command, files, subst),
                                      << command >>,
                                      expandQuoted(DropFirst(rest, e), files, subst))
              [] c = "$" /\ rest # "" /\ n # "(" /\ IsNameStart(n) ->
                   after(pre, << >>,
                         expandQuoted(DropFirst(rest, nameRun(rest)), files, subst))
              [] c = "$" /\ rest # "" /\ IsDigit(n) ->
                   after(pre, << >>,
                         expandQuoted(DropFirst(rest, 1), files, subst))
              [] OTHER ->
                   after(pre \o "$", << >>, expandQuoted(rest, files, subst))

\* /bin/bash runs a command line of the form  copilot --prompt "..." :
\* started (copilot was started), argv (the arguments it received), ran
\* (the other commands bash ran while building them).
bashRun(commandLine, files, subst) ==
    LET q == expandQuoted(DropFirst(commandLine, Len("copilot --prompt \"")),
                          files, subst)
    IN  IF q.ok /\ q.rest = ""
        THEN [started |-> TRUE, argv |-> << "--prompt", q.word >>, ran |-> q.ran]
        ELSE [started |-> FALSE, argv |-> << >>, ran |-> q.ran]

-----------------------------------------------------------------------------
(* Inputs: what the callers pass and what the environment can do.          *)

RECURSIVE repeat(_, _)
repeat(s, n) ==
    IF n <= 0 THEN ""
    ELSE IF n = 1 THEN s
    ELSE LET h == repeat(s, n \div 2)
         IN  h \o h \o (IF n % 2 = 1 THEN s ELSE "")

\* s padded with dots to length n (s itself when it is already longer).
padTo(s, n) == s \o repeat(".", n - Len(s))

ConfigFiles ==
    { [state |-> "missing",    obj |-> NoKeys],
      [state |-> "unparsable", obj |-> NoKeys],
      [state |-> "null",       obj |-> NoKeys],
      [state |-> "object",     obj |-> [copilotModel |-> "gpt-4.1"]],
      [state |-> "object",     obj |-> [copilotModel |-> "gpt-5-mini",
                                        githubToken |-> "ghp_abc123"]],
      [state |-> "object",     obj |-> [copilotModel |-> "claude-opus-4.5",
                                        defaultBaseBranch |-> "main"]] }

NoLogs == [exists |-> FALSE, files |-> {}]

LogFile(name, content) == [name |-> name, content |-> content, readable |-> TRUE]

\* A log directory whose latest file ends with a quota error.
QuotaLog ==
    [exists |-> TRUE, files |->
        { LogFile("process-3.log", "3 [ERROR] You have exceeded your premium request allowance") }]

LogStates ==
    { NoLogs,
      [exists |-> TRUE, files |-> {}],
      [exists |-> TRUE, files |-> { LogFile("process-1.log", "1 [INFO] started\n") }],
      [exists |-> TRUE, files |->
          { LogFile("process-1.log", "1 [ERROR] old quota error"),
            LogFile("process-2.log", "2 [INFO] x\n2 [ERROR] request failed: 500\n") }],
      [exists |-> TRUE, files |->
          { LogFile("process-2.log", "2 [ERROR] Failed to list models: 403\n2 [ERROR] boom") }],
      [exists |-> TRUE, files |->
          { LogFile("process-2.log", "2 [ERROR] failed to list models 401") }],
      QuotaLog,
      [exists |-> TRUE, files |->
          { LogFile("process-3.log", "3 [ERROR] bad credentials ghp_abc123\n") }],
      [exists |-> TRUE, files |->
          { LogFile("process-3.log", "3 [ERROR] Failed to list models for ghp_abc123: 500") }],
      [exists |-> TRUE, files |->
          { LogFile("process-3.log", "3 [ERROR] " \o padTo("quota", LOG_LINE_LIMIT)) }],
      [exists |-> TRUE, files |->
          { LogFile("process-3.log", "3 [ERROR] " \o padTo("boom", LOG_LINE_LIMIT - 1)) }],
      [exists |-> TRUE, files |->
          { LogFile("process-1.log", "1 [ERROR] disk full"),
            LogFile("session.log", "9 [ERROR] not a process log") }],
      [exists |-> TRUE, files |->
          { [name |-> "process-4.log", content |-> "", readable |-> FALSE] }] }

QuotaPhrases ==
    { "premium request", "Rate limit", "quota", "exceeded your allowance",
      "budget reached", "limit has been reached", "Too Many Requests", "HTTP 429" }

SensitiveWords == { "token", "Auth", "api key", "secret", "password" }

\* How much longer or shorter than the limit the long error texts are.
PadSlack == 1

Stderrs ==
    { "", " \n", "boom", "allowance exceeded", "exceeded\nallowance", "bad token",
      "bad credentials ghp_abc123" }
        \cup { "Error: " \o q \o "\n" : q \in QuotaPhrases }
        \cup { q \o " for " \o w : q \in { "quota", "HTTP 429" }, w \in SensitiveWords }
        \cup { padTo(q, STDERR_LIMIT + d) :
                   q \in { "quota", "boom" }, d \in (0 - PadSlack)..(PadSlack - 1) }

Exit(code, killed, stderr, logs) ==
    [ok |-> FALSE, stdout |-> "", stderr |-> stderr, code |-> code,
     killed |-> killed, logs |-> logs]

Failures ==
    { Exit("1", FALSE, e, NoLogs) : e \in Stderrs }
        \cup { Exit("2", FALSE, e, l) : e \in { "", "\n" }, l \in LogStates }
        \cup { Exit("3", FALSE, "boom", l) : l \in { QuotaLog } }
        \cup { Exit("ENOENT", FALSE, "", l) : l \in { NoLogs } }
        \cup { Exit("ERR_CHILD_PROCESS_STDIO_MAXBUFFER", TRUE, e, l) :
                   e \in { "", "quota" }, l \in { NoLogs, QuotaLog } }
        \cup { Exit("", TRUE, e, l) :
                   e \in { "", "Rate limit" }, l \in { NoLogs, QuotaLog } }

Success(stdout) ==
    [ok |-> TRUE, stdout |-> stdout, stderr |-> "", code |-> "",
     killed |-> FALSE, logs |-> NoLogs]

Diffs ==
    { "",
      "+++ b/a.ts\n--- a/a.ts\n+x\n+y\n+z\n+w\n-q\n r",
      "-only removed",
      " context\n" }

CommitLinePrefixes == { "", "1. ", "12) ", "- ", "* " }

CommitLineTexts ==
    { "feat: add login", "Fix(ui): typo", "perf: faster", "build", "*", "**",
      BQ, "- *", "hello there" }

CommitResponses ==
    { p \o t : p \in CommitLinePrefixes, t \in CommitLineTexts }
        \cup { "", "\n \n",
               "1. feat: add login\n2. fix: typo\n3. chore: cleanup",
               "Sure!\n\n- feat: a\n* docs: b\nci: c\n4. d\n5. e",
               "1. *\n2. feat: x" }

CommitLists ==
    { << >>, << "feat: add login" >>, << "fix: a", "wip", "feat: b", "chore: c" >>,
      << "feat: x", "feature flag", "Fix: y", "fix z" >>,
      << "", "fix: a" >> }

IssueContexts == { "", "Closes #12" }

\* How far around the usability threshold the response bodies reach.
BodySlack == 2

BodyLengths ==
    { 0, 1 } \cup (MIN_BODY_LENGTH - BodySlack)..(MIN_BODY_LENGTH + BodySlack)

PRResponses ==
    { "TITLE: " \o t \o "\nBODY:\n" \o repeat("x", n) :
          t \in { "Add login", "**", "" }, n \in BodyLengths }
        \cup { "A title\n" \o repeat("y", n) : n \in BodyLengths }
        \cup { "", "body: " \o repeat("z", MIN_BODY_LENGTH + 1) }

\* Number of digits of the longest issue number.
MaxIssueDigits == 42

Descriptions ==
    { "Add User Auth!!", "", "!!!", " -fix  the -- bug- ", "Fix login/logout v2.0",
      repeat("Word and ", 7) }

\* The --issue option reaches generateBranchName as typed: parseInt reads
\* the last one as 7.
IssueNumbers == { "", "123", repeat("0", MaxIssueDigits - 1) \o "7" }

BranchResponses ==
    { "", "feature/add-login", "feature/123-add-user-auth", BQ \o "fix/7-thing" \o BQ, "\"Chore/Some Thing\"\nbye",
      "Here is your branch: docs/readme!", "---", repeat("long-name-", 6),
      "refactor/123-" \o repeat("ab-", 20) }

Responses(fn) ==
    CASE fn = "generateCommitMessage" -> CommitResponses
      [] fn = "generatePRDescription" -> PRResponses
      [] fn = "generateBranchName"    -> BranchResponses
      [] OTHER                        -> {}

NoCall ==
    [fn |-> "none", diff |-> "", commits |-> << >>, issueContext |-> "",
     description |-> "", type |-> "", issueNumber |-> ""]

CommitCall(diff) == [NoCall EXCEPT !.fn = "generateCommitMessage", !.diff = diff]

PRCall(commits, issueContext) ==
    [NoCall EXCEPT !.fn = "generatePRDescription", !.commits = commits,
                   !.issueContext = issueContext]

BranchCall(description, type, issueNumber) ==
    [NoCall EXCEPT !.fn = "generateBranchName", !.description = description,
                   !.type = type, !.issueNumber = issueNumber]

\* The entry point's promise: rejected when an error leaves the entry point,
\* else fulfilled with messages (commit), draft (PR), name (branch) or
\* models (model discovery).
NoResult ==
    [rejected |-> FALSE, messages |-> << >>,
     draft |-> [title |-> "", body |-> ""], name |-> "", models |-> << >>]

NoOutcome == Success("")

-----------------------------------------------------------------------------
(* The entry points and the quota-retry orchestrator.                      *)
(*                                                                         *)
(* An entry point runs up to its first await of the subprocess.  When the  *)
(* subprocess ends, execCopilotPrompt settles (returns stdout or throws);  *)
(* execWithQuotaRetry then resumes and either ends, the entry point        *)
(* returning at once, or awaits the free-tier retry.                       *)
(* pc: "idle" | "primary" | "primarySettled" | "retry" | "retrySettled"    *)
(*     | "done".                                                           *)
(* orch: "Idle" | "Primary" | "RetryingFree" | "Succeeded" | "Failed".     *)

promptOf(c) ==
    CASE c.fn = "generateCommitMessage" -> commitPrompt(c.diff)
      [] c.fn = "generatePRDescription" -> prPrompt(c.commits)
      [] c.fn = "generateBranchName"    ->
             branchPrompt(c.description, c.type, c.issueNumber)

\* The value the entry point returns when execWithQuotaRetry returned stdout.
fromStdout(c, stdout) ==
    CASE c.fn = "generateCommitMessage" ->
             [NoResult EXCEPT !.messages = commitFromStdout(c.diff, stdout)]
      [] c.fn = "generatePRDescription" ->
             [NoResult EXCEPT !.draft = prFromStdout(c.commits, c.issueContext, stdout)]
      [] c.fn = "generateBranchName" ->
             [NoResult EXCEPT !.name = branchFromStdout(c.type, c.issueNumber, stdout)]

\* The value the entry point's catch block returns.
fallbackOf(c) ==
    CASE c.fn = "generateCommitMessage" ->
             [NoResult EXCEPT !.messages = generateFallbackMessages(c.diff)]
      [] c.fn = "generatePRDescription" ->
             [NoResult EXCEPT !.draft = generateSmartFallback(c.commits, c.issueContext)]
      [] c.fn = "generateBranchName" ->
             [NoResult EXCEPT !.name =
                 generateFallbackBranchName(c.description, c.type, c.issueNumber)]

warn(reason) == [kind |-> "warn", text |-> reason]

\* The notice generatePRDescription prints when it discards a parsed draft.
weakNotice(c, stdout) ==
    IF c.fn = "generatePRDescription" /\ ~ isUsable(parsePRDescription(stdout))
    THEN << [kind |-> "weak"] >> ELSE << >>

\* printQuotaWarning: the warning, then the cost line of the free model.
printQuotaWarning(currentModel) ==
    << [kind |-> "quotaWarning", model |-> currentModel],
       printModelCost(FREE_FALLBACK_MODEL) >>

printSwitchTip == [kind |-> "switchTip"]

Pending == Returned("")

\* The entry point is called: it builds the prompt and enters
\* execWithQuotaRetry, which reads the configuration, prints the cost line
\* and starts the primary subprocess.  A configuration read that throws is
\* caught by the entry point.  One command runs one entry point once.
Enter(c) ==
    LET m == getCopilotModel(configFile)
    IN  /\ pc = "idle"
        /\ call' = c
        /\ IF m.threw
           THEN /\ pc' = "done"
                /\ orch' = "Failed"
                /\ configuredModel' = ""
                /\ argv' = << >>
                /\ thrown' = Some(m.val)
                /\ console' = << warn(m.val) >>
                /\ result' = fallbackOf(c)
           ELSE /\ pc' = "primary"
                /\ orch' = "Primary"
                /\ configuredModel' = m.val
                /\ argv' = << copilotArgs(promptOf(c), m.val) >>
                /\ thrown' = None
                /\ console' = << printModelCost(m.val) >>
                /\ result' = NoResult
        /\ UNCHANGED << configFile, cfg, cmd, outcome, invoked, tmpFiles, shell >>

generateCommitMessage(diff) == Enter(CommitCall(diff))

generatePRDescription(commits, issueContext) == Enter(PRCall(commits, issueContext))

generateBranchName(description, type, issueNumber) ==
    Enter(BranchCall(description, type, issueNumber))

\* The subprocess ends as o: execCopilotPrompt returns its stdout or throws
\* the message it builds in its catch block.
InvokerSettles(o) ==
    /\ pc \in { "primary", "retry" }
    /\ pc' = IF pc = "primary" THEN "primarySettled" ELSE "retrySettled"
    /\ outcome' = o
    /\ invoked' = execCopilotPrompt(o)
    /\ UNCHANGED << call, configFile, cfg, cmd, argv, configuredModel, orch, thrown,
                    console, result, tmpFiles, shell >>

\* execWithQuotaRetry returns stdout to the entry point, which parses it.
Succeed(tip) ==
    /\ orch' = "Succeeded"
    /\ pc' = "done"
    /\ thrown' = None
    /\ console' = console \o tip \o weakNotice(call, invoked.val)
    /\ result' = fromStdout(call, invoked.val)
    /\ UNCHANGED << call, configFile, cfg, cmd, argv, configuredModel, outcome, invoked, tmpFiles, shell >>

\* An entry point without its catch block: the error reaches the caller.
Fail_Rethrows ==
    /\ orch' = "Failed"
    /\ pc' = "done"
    /\ thrown' = Some(invoked.val)
    /\ console' = console
    /\ result' = [NoResult EXCEPT !.rejected = TRUE]
    /\ UNCHANGED << call, configFile, cfg, cmd, argv, configuredModel, outcome, invoked, tmpFiles, shell >>

\* execWithQuotaRetry throws the error it caught; the entry point's catch
\* prints the reason and returns its fallback.
Fail ==
    /\ orch' = "Failed"
    /\ pc' = "done"
    /\ thrown' = Some(invoked.val)
    /\ console' = Append(console, warn(invoked.val))
    /\ result' = fallbackOf(call)
    /\ UNCHANGED << call, configFile, cfg, cmd, argv, configuredModel, outcome, invoked, tmpFiles, shell >>

\* Line 283 returns.
\* A primary success that prints the tip as well.
PrimarySucceeds_Tips ==
    /\ pc = "primarySettled"
    /\ ~ invoked.threw
    /\ Succeed(<< printSwitchTip >>)

PrimarySucceeds ==
    /\ pc = "primarySettled"
    /\ ~ invoked.threw
    /\ Succeed(<< >>)

\* A catch block that never retries.
retriesWithFreeModel_Never(model, message) == FALSE

\* A catch block that forgets the free-tier test of line 286.
retriesWithFreeModel_AnyTier(model, message) == isQuotaError(message)

\* A catch block that forgets the quota test of line 289.
retriesWithFreeModel_AnyError(model, message) == ~ isFreeModel(model)

\* The catch block of execWithQuotaRetry retries (lines 286 and 289).
retriesWithFreeModel(model, message) ==
    ~ isFreeModel(model) /\ isQuotaError(message)

\* Line 283 throws and the error is rethrown (lines 286, 298).
PrimaryFails ==
    /\ pc = "primarySettled"
    /\ invoked.threw
    /\ ~ retriesWithFreeModel(configuredModel, invoked.val)
    /\ Fail

\* Lines 290 and 292: the warning is printed and the free-tier invocation
\* started. The caught error is not used again.
StartRetry ==
    /\ orch' = "RetryingFree"
    /\ pc' = "retry"
    /\ argv' = Append(argv, copilotArgs(promptOf(call), FREE_FALLBACK_MODEL))
    /\ console' = console \o printQuotaWarning(configuredModel)
    /\ outcome' = NoOutcome
    /\ invoked' = Pending
    /\ UNCHANGED << call, configFile, cfg, cmd, configuredModel, thrown, result, tmpFiles, shell >>

\* Line 283 throws a quota error under a model that is not free-tier.
PrimaryQuotaRetry ==
    /\ pc = "primarySettled"
    /\ invoked.threw
    /\ retriesWithFreeModel(configuredModel, invoked.val)
    /\ StartRetry

\* Line 292 returns: the tip is printed and stdout returned.
RetrySucceeds ==
    /\ pc = "retrySettled"
    /\ ~ invoked.threw
    /\ Succeed(<< printSwitchTip >>)

\* A retry that is itself retried on a quota error.
RetryFails_Chained ==
    /\ pc = "retrySettled"
    /\ invoked.threw
    /\ IF isQuotaError(invoked.val) THEN StartRetry ELSE Fail

\* Line 292 throws: the error leaves execWithQuotaRetry.
RetryFails ==
    /\ pc = "retrySettled"
    /\ invoked.threw
    /\ Fail

\* fetchAvailableModels, lines 77-110: `copilot --help` is started ...
discoverModels ==
    /\ pc = "idle"
    /\ pc' = "help"
    /\ call' = [NoCall EXCEPT !.fn = "fetchAvailableModels"]
    /\ UNCHANGED << configFile, cfg, cmd, argv, outcome, invoked, configuredModel, orch,
                    thrown, console, result, tmpFiles, shell >>

\* ... and the await at line 80 ends as o: the list is returned.
HelpSettles(o) ==
    /\ pc = "help"
    /\ pc' = "done"
    /\ outcome' = o
    /\ result' = [NoResult EXCEPT !.models = fetchAvailableModels(o)]
    /\ UNCHANGED << call, configFile, cfg, cmd, argv, invoked, configuredModel, orch,
                    thrown, console, tmpFiles, shell >>

\* `pr create` before its action has run.  isPushed: what isBranchPushed
\* returned; push: how pushBranch ended; confirmed: the answer to "Create
\* PR?"; created: the parameters of each createPullRequest call; exitCode:
\* the status the process ended with.
NoCmd ==
    [pc |-> "start", currentBranch |-> "", baseBranch |-> "",
     isPushed |-> "unknown", push |-> "none", commits |-> << >>,
     issueContext |-> "", finalTitle |-> "", finalBody |-> "",
     confirmed |-> "unasked", created |-> << >>, exitCode |-> ""]

\* No call of set yet.  before: the file when the last call began; threw:
\* whether that call threw instead of returning.
NoCfg ==
    [sets |-> 0, key |-> "", value |-> "", before |-> [state |-> "missing", obj |-> NoKeys],
     threw |-> FALSE]

Init ==
    /\ pc = "idle"
    /\ cmd = NoCmd
    /\ cfg = NoCfg
    /\ call = NoCall
    /\ configFile \in ConfigFiles
    /\ argv = << >>
    /\ outcome = NoOutcome
    /\ invoked = Pending
    /\ configuredModel = ""
    /\ orch = "Idle"
    /\ thrown = None
    /\ console = << >>
    /\ result = NoResult
    /\ tmpFiles = NoKeys
    /\ shell = << >>

(* Spec: the orchestrator under every failure of the tool, for one call    *)
(* of each entry point.                                                    *)

SampleDiffs == { "+++ b/a.ts\n--- a/a.ts\n+x\n+y\n+z\n+w\n-q\n r" }

SampleCommitLists == { << "feat: add login", "fix: typo" >> }

SampleDescriptions == { "Add User Auth!!" }

SampleResponses(fn) ==
    CASE fn = "generateCommitMessage" ->
             { "1. feat: add login\n2. fix: typo\n3. chore: cleanup", "no idea" }
      [] fn = "generatePRDescription" ->
             { "TITLE: Add login\nBODY:\n" \o repeat("x", MIN_BODY_LENGTH + 1), "ok" }
      [] fn = "generateBranchName" -> { "feature/123-add-user-auth", "" }
      [] OTHER -> {}

Outcomes == { Success(r) : r \in SampleResponses(call.fn) } \cup Failures

\* `copilot --help` texts whose --model entry lists its choices.
HelpWithModelChoices ==
    { "Options:\n  --model <model>  Set the AI model to use (choices:\n"
          \o "    \"claude-sonnet-4.5\", \"gpt-5\", \"gpt-6-preview\")\n"
          \o "  --stream <mode>  Streaming mode (choices: \"on\", \"off\")\n",
      "  --model\t<model>\n\tmodel (choices: \"gpt-4.1\")" }

\* `copilot --help` texts whose --model entry (if any) lists no choices.
HelpWithoutModelChoices ==
    { "",
      "Options:\n  --banner  Show the banner\n  -s  Silent\n",
      "Options:\n  --model <model>  Set the AI model to use\n",
      "Options:\n  --model <model>  Set the AI model to use (choices:\n    \"gpt-5\"",
      "Options:\n  --model <model>  Set the AI model to use\n"
          \o "  --stream <mode>  Streaming mode (choices: \"on\", \"off\")\n" }

\* `copilot --help` texts whose --model choices hold no quoted identifier.
HelpWithUnquotedChoices ==
    { "  --model <model>  Set the AI model to use (choices: )\n",
      "  --model <model>  Set the AI model to use (choices: gpt-5, gpt-4.1)\n",
      "  --model <model>  Set the AI model to use (choices: \"\")\n" }

\* How `copilot --help` can end: a help text, an exit status, the 10 s
\* timeout, or the command missing.
HelpOutcomes ==
    { Success(h) : h \in HelpWithModelChoices \cup HelpWithoutModelChoices
                             \cup HelpWithUnquotedChoices }
        \cup { Exit("1", FALSE, "boom", NoLogs),
               Exit("127", FALSE, "copilot: command not found", NoLogs),
               Exit("null", TRUE, "", NoLogs) }

Next ==
    \/ \E diff \in SampleDiffs : generateCommitMessage(diff)
    \/ \E commits \in SampleCommitLists : generatePRDescription(commits, "Closes #12")
    \/ \E description \in SampleDescriptions :
           generateBranchName(description, "feature", "123")
    \/ \E o \in Outcomes : InvokerSettles(o)
    \/ PrimarySucceeds
    \/ PrimaryFails
    \/ PrimaryQuotaRetry
    \/ RetrySucceeds
    \/ RetryFails
    \/ discoverModels
    \/ \E o \in HelpOutcomes : HelpSettles(o)

Spec == Init /\ [][Next]_vars

(* SpecTexts: the entry points over their input texts and the tool's       *)
(* responses, with one failure of each class.                              *)

TextFailures ==
    { Exit("1", FALSE, "boom", NoLogs), Exit("1", FALSE, "quota exceeded", NoLogs) }

TextOutcomes == { Success(r) : r \in Responses(call.fn) } \cup TextFailures

InitTexts ==
    /\ Init
    /\ configFile.state = "missing"

NextTexts ==
    \/ \E diff \in Diffs : generateCommitMessage(diff)
    \/ \E commits \in CommitLists : \E issueContext \in IssueContexts :
           generatePRDescription(commits, issueContext)
    \/ \E description \in Descriptions : \E type \in BRANCH_TYPES :
           \E issueNumber \in IssueNumbers :
               generateBranchName(description, type, issueNumber)
    \/ \E o \in TextOutcomes : InvokerSettles(o)
    \/ PrimarySucceeds
    \/ PrimaryFails
    \/ PrimaryQuotaRetry
    \/ RetrySucceeds
    \/ RetryFails

SpecTexts == InitTexts /\ [][NextTexts]_vars

-----------------------------------------------------------------------------
(* SpecShell: the shell-based generateCommitMessage and                    *)
(* generatePRDescription of src/services/copilot.ts.                       *)
(* pc: "idle" | "shellCommit" | "shellPR" | "done".                        *)

\* error.message of a rejected exec: the command line, then its stderr.
execErrorMessage(commandLine, o) == "Command failed: " \o commandLine \o "\n" \o o.stderr

\* One command line handed to exec: the staging file it reads ("" when it
\* reads none) and the commands bash ran while expanding it.
ShellRun(commandLine, tmpFile, ran) ==
    [commandLine |-> commandLine, tmpFile |-> tmpFile, ran |-> ran]

\* generateCommitMessage up to its await: the prompt is written to the
\* staging file and bash is given the command line that cats it.
shellGenerateCommitMessage(diff, now) ==
    LET tmpFile == tmpFileOf(now)
        files   == [f \in DOMAIN tmpFiles \cup { tmpFile } |->
                       IF f = tmpFile THEN commitPrompt(diff) ELSE tmpFiles[f]]
        line    == commitCommandLine(tmpFile)
        run     == bashRun(line, files, "")
    IN  /\ pc = "idle"
        /\ pc' = "shellCommit"
        /\ call' = CommitCall(diff)
        /\ tmpFiles' = files
        /\ shell' = Append(shell, ShellRun(line, tmpFile, run.ran))
        /\ argv' = IF run.started THEN << run.argv >> ELSE << >>
        /\ console' = << [kind |-> "calling"] >>
        /\ UNCHANGED << configFile, cfg, cmd, outcome, invoked, configuredModel, orch,
                        thrown, result >>

\* generatePRDescription up to its await: the prompt is escaped and put
\* between double quotes in the command line given to bash.
shellGeneratePRDescription(commits, issueContext, subst) ==
    LET line == prCommandLine(prPrompt(commits))
        run  == bashRun(line, tmpFiles, subst)
    IN  /\ pc = "idle"
        /\ pc' = "shellPR"
        /\ call' = PRCall(commits, issueContext)
        /\ shell' = Append(shell, ShellRun(line, "", run.ran))
        /\ argv' = IF run.started THEN << run.argv >> ELSE << >>
        /\ console' = << [kind |-> "calling"] >>
        /\ UNCHANGED << configFile, cfg, cmd, outcome, invoked, configuredModel, orch,
                        thrown, result, tmpFiles >>

\* exec settles as o.  Resolved: the staging file is unlinked and stdout
\* parsed.  Rejected: the catch block prints the message and returns the
\* fallback.
ShellSettles(o) ==
    LET run == shell[Len(shell)]
        message == execErrorMessage(run.commandLine, o)
    IN  /\ pc \in { "shellCommit", "shellPR" }
        /\ argv # << >> \/ ~ o.ok
        /\ pc' = "done"
        /\ outcome' = o
        /\ IF o.ok
           THEN /\ tmpFiles' = [f \in DOMAIN tmpFiles \ { run.tmpFile } |-> tmpFiles[f]]
                /\ thrown' = None
                /\ console' = console \o weakNotice(call, o.stdout)
                /\ result' = fromStdout(call, o.stdout)
           ELSE /\ tmpFiles' = tmpFiles
                /\ thrown' = Some(message)
                /\ console' = Append(console, warn(message))
                /\ result' = fallbackOf(call)
        /\ UNCHANGED << call, configFile, cfg, cmd, argv, invoked, configuredModel, orch, shell >>

\* Date.now() when the staging file is named.
Clock == { "1700000000000", "1700000000001" }

\* What the commands of the substitutions print.
SubstitutionOutputs == { "", "uid=0(root)" }

ShellDiffs ==
    { "", "+++ b/a.sh\n+echo $(id) @ls@ \"$HOME\"\n-x\\y\n", "+x\n\n" }

ShellCommitLists ==
    { << >>, << "feat: add login", "fix: typo" >>, << "fix: $(id)" >>,
      << "feat: use @ls@ helper" >>, << "docs: say \"hi\"" >>,
      << "chore: a\\b", "fix: cost $HOME $5" >>, << "fix: lone @ tick" >>,
      << "fix: open $( paren" >> }

ShellOutcomes ==
    { Success(r) : r \in SampleResponses(call.fn) }
        \cup TextFailures \cup { Exit("", TRUE, "", NoLogs) }

InitShell ==
    /\ Init
    /\ configFile.state = "missing"

NextShell ==
    \/ \E diff \in ShellDiffs : \E now \in Clock :
           shellGenerateCommitMessage(diff, now)
    \/ \E commits \in ShellCommitLists : \E issueContext \in IssueContexts :
           \E subst \in SubstitutionOutputs :
               shellGeneratePRDescription(commits, issueContext, subst)
    \/ \E o \in ShellOutcomes : ShellSettles(o)

SpecShell == InitShell /\ [][NextShell]_vars

-----------------------------------------------------------------------------
(* Properties of the quota-retry orchestrator (checked under Spec).        *)

Invocations == Len(argv)

NonFreeConfigured == configuredModel \notin { "", "gpt-4.1", "gpt-5-mini" }

FreeConfigured == configuredModel \in { "gpt-4.1", "gpt-5-mini" }

\* An invocation has just failed with a message matching a quota pattern.
QuotaFailureSettled ==
    /\ pc \in { "primarySettled", "retrySettled" }
    /\ invoked.threw
    /\ isQuotaError(invoked.val)

\* C1: with a configured model that is not free-tier, a primary invocation
\* that fails with a quota-pattern message is followed by exactly one
\* free-tier retry, and a retry that fails with a quota-pattern message ends
\* the run in Failed: 2 invocations, never 1 and never 3.
C1_RetryOnce ==
    [][ (NonFreeConfigured /\ QuotaFailureSettled) =>
            IF pc = "primarySettled"
            THEN pc' = "retry" /\ orch' = "RetryingFree" /\ Len(argv') = 2
            ELSE pc' = "done" /\ orch' = "Failed" /\ Len(argv') = 2 ]_vars

C1_Witness ==
    /\ pc = "done"
    /\ NonFreeConfigured
    /\ orch = "Failed"
    /\ Invocations = 2
    /\ invoked.threw
    /\ isQuotaError(invoked.val)

\* C2: with a free-tier configured model (gpt-4.1, gpt-5-mini) no retry is
\* ever started, and a failure of the primary invocation, quota-matching or
\* not, ends the run in Failed after exactly 1 invocation.
C2_NoRetryOnFreeTier ==
    FreeConfigured =>
        /\ Invocations = 1
        /\ pc \notin { "retry", "retrySettled" }
        /\ (pc = "done" /\ invoked.threw) => orch = "Failed"

C2_Witness ==
    /\ pc = "done"
    /\ FreeConfigured
    /\ orch = "Failed"
    /\ Invocations = 1
    /\ isQuotaError(invoked.val)

\* C3: with a configured model that is not free-tier, a primary invocation
\* that fails with a message matching no quota pattern is propagated at
\* once: the run ends in Failed with that message after 1 invocation.
C3_NoRetryOnGenericFailure ==
    [][ (/\ pc = "primarySettled"
         /\ NonFreeConfigured
         /\ invoked.threw
         /\ ~ isQuotaError(invoked.val)) =>
            (/\ pc' = "done"
             /\ orch' = "Failed"
             /\ Len(argv') = 1
             /\ thrown' = Some(invoked.val)) ]_vars

C3_Witness ==
    /\ pc = "done"
    /\ NonFreeConfigured
    /\ orch = "Failed"
    /\ Invocations = 1
    /\ invoked.threw
    /\ ~ isQuotaError(invoked.val)

\* C4: no run makes more than 2 invocations, and a failure of the second
\* invocation, whatever its kind, ends the run in Failed without starting
\* another invocation.
C4_AtMostTwoInvocations ==
    [][ /\ Len(argv') <= 2
        /\ (pc = "retrySettled" /\ invoked.threw) =>
               (pc' = "done" /\ orch' = "Failed" /\ argv' = argv) ]_vars

C4_Witness ==
    /\ pc = "done"
    /\ orch = "Failed"
    /\ Invocations = 2
    /\ invoked.threw
    /\ ~ isQuotaError(invoked.val)

\* The subprocess exited with an error status (no timeout, no overflow).
PlainExit(o) ==
    ~ o.ok /\ ~ o.killed /\ o.code # "ERR_CHILD_PROCESS_STDIO_MAXBUFFER"

\* C5 (as claimed): whenever the primary invocation with a non-free model
\* fails and the tool's raw error text matches a quota pattern, whatever its
\* length and other words, the orchestrator retries with the free model.
C5_RawQuotaTextRetried ==
    [][ (/\ pc = "primarySettled"
         /\ NonFreeConfigured
         /\ PlainExit(outcome)
         /\ isQuotaError(outcome.stderr)) => pc' = "retry" ]_vars

\* C6: the retry is started with the argument vector of the primary
\* invocation except for the model, which is gpt-4.1, a free-tier model of
\* multiplier 0.
C6_RetryUsesFreeFallback ==
    Invocations >= 2 =>
        /\ argv[2] = << "--model", "gpt-4.1", "-s", "--prompt", argv[1][5] >>
        /\ argv[1][4] = "--prompt"
        /\ argv[1][5] = promptOf(call)
        /\ \E i \in 1..Len(FREE_MODELS) : FREE_MODELS[i] = argv[2][2]
        /\ MODEL_CATALOG[argv[2][2]].multiplier = 0

C6_Witness ==
    /\ pc = "retry"
    /\ Invocations = 2
    /\ configuredModel = "claude-opus-4.5"
    /\ argv[2][2] = "gpt-4.1"

\* The value of the deterministic fallback generator of the entry point.
FallbackValue ==
    CASE call.fn = "generateCommitMessage" ->
             [NoResult EXCEPT !.messages = generateFallbackMessages(call.diff)]
      [] call.fn = "generatePRDescription" ->
             [NoResult EXCEPT
                 !.draft = generateSmartFallback(call.commits, call.issueContext)]
      [] call.fn = "generateBranchName" ->
             [NoResult EXCEPT !.name =
                 generateFallbackBranchName(call.description, call.type,
                                            call.issueNumber)]

\* C7: an entry point never rejects: whenever the generation path fails
\* (timeout, buffer overflow, quota error with a failed retry, authentication
\* or generic error, missing binary, configuration read failure) it returns
\* the value of its fallback generator.
C7_EntryPointsNeverRaise ==
    pc = "done" =>
        /\ ~ result.rejected
        /\ orch = "Failed" => (thrown.some /\ result = FallbackValue)

C7_Witness ==
    /\ pc = "done"
    /\ orch = "Failed"
    /\ Invocations = 2
    /\ outcome.killed
    /\ call.fn = "generatePRDescription"
    /\ result = FallbackValue

-----------------------------------------------------------------------------
(* SpecPR: the action of `devflow pr create` (src/commands/pr.ts), one     *)
(* step per await, with generatePRDescription run by the service above.    *)
(* cmd.pc: "start" | "branches" | "checkPushed" | "pushing" | "commits" |  *)
(* "issue" | "generate" | "edit" | "confirm" | "creating" | "exited".      *)

\* process.exit(code), also from the catch block of lines 174-177.
exited(c, code) == [c EXCEPT !.pc = "exited", !.exitCode = code]

\* Lines 24-27: isGitRepo.
prCreate_IsGitRepo(isRepo) ==
    /\ cmd.pc = "start"
    /\ cmd' = IF isRepo THEN [cmd EXCEPT !.pc = "branches"] ELSE exited(cmd, "1")
    /\ UNCHANGED << pc, call, configFile, cfg, argv, outcome, invoked, configuredModel,
                    orch, thrown, console, result, tmpFiles, shell >>

\* Lines 30-37: the two branches are read (git.status() may throw) and
\* compared.
prCreate_Branches(statusOk, currentBranch, optionBase, gitBase) ==
    LET baseBranch == IF optionBase # "" THEN optionBase ELSE gitBase
    IN  /\ cmd.pc = "branches"
        /\ cmd' = IF ~ statusOk THEN exited(cmd, "1")
                  ELSE IF currentBranch = baseBranch
                       THEN exited([cmd EXCEPT !.currentBranch = currentBranch,
                                               !.baseBranch = baseBranch], "1")
                  ELSE [cmd EXCEPT !.pc = "checkPushed",
                                   !.currentBranch = currentBranch,
                                   !.baseBranch = baseBranch]
        /\ UNCHANGED << pc, call, configFile, cfg, argv, outcome, invoked,
                        configuredModel, orch, thrown, console, result,
                        tmpFiles, shell >>

\* Lines 42-44 and 55-57: isBranchPushed.
prCreate_IsBranchPushed(isPushed) ==
    /\ cmd.pc = "checkPushed"
    /\ cmd' = [cmd EXCEPT !.isPushed = IF isPushed THEN "true" ELSE "false",
                          !.pc = IF isPushed THEN "commits" ELSE "pushing"]
    /\ UNCHANGED << pc, call, configFile, cfg, argv, outcome, invoked, configuredModel,
                    orch, thrown, console, result, tmpFiles, shell >>

\* A failed push that does not end the run.
prCreate_PushBranch_GoesOn(pushOk) ==
    /\ cmd.pc = "pushing"
    /\ cmd' = [cmd EXCEPT !.push = IF pushOk THEN "ok" ELSE "failed",
                          !.pc = "commits"]
    /\ UNCHANGED << pc, call, configFile, cfg, argv, outcome, invoked, configuredModel,
                    orch, thrown, console, result, tmpFiles, shell >>

\* Lines 45-54: pushBranch.
prCreate_PushBranch(pushOk) ==
    /\ cmd.pc = "pushing"
    /\ cmd' = IF pushOk THEN [cmd EXCEPT !.push = "ok", !.pc = "commits"]
              ELSE exited([cmd EXCEPT !.push = "failed"], "1")
    /\ UNCHANGED << pc, call, configFile, cfg, argv, outcome, invoked, configuredModel,
                    orch, thrown, console, result, tmpFiles, shell >>

\* Lines 63-70: getCommitsSinceBase (throws when git log fails).
prCreate_Commits(logOk, commits) ==
    /\ cmd.pc = "commits"
    /\ cmd' = IF ~ logOk THEN exited(cmd, "1")
              ELSE IF Len(commits) = 0 THEN exited(cmd, "1")
              ELSE [cmd EXCEPT !.commits = commits, !.pc = "issue"]
    /\ UNCHANGED << pc, call, configFile, cfg, argv, outcome, invoked, configuredModel,
                    orch, thrown, console, result, tmpFiles, shell >>

\* Lines 80-92: the issue, when --issue is given and it can be fetched.
prCreate_Issue(optionIssue, fetched, title, body) ==
    /\ cmd.pc = "issue"
    /\ cmd' = [cmd EXCEPT
                  !.pc = "generate",
                  !.issueContext =
                      IF optionIssue # "" /\ fetched
                      THEN "\n\nRelated Issue: #" \o optionIssue \o " - "
                               \o title \o "\n" \o body
                      ELSE ""]
    /\ UNCHANGED << pc, call, configFile, cfg, argv, outcome, invoked, configuredModel,
                    orch, thrown, console, result, tmpFiles, shell >>

\* Line 98: the call of copilot.generatePRDescription.
prCreate_Generate ==
    /\ cmd.pc = "generate"
    /\ generatePRDescription(cmd.commits, cmd.issueContext)

\* Lines 98-147: the draft has come back; the user keeps or edits it (a
\* prompt that is interrupted throws).
prCreate_Edit(answered, shouldEdit, editChoice, newTitle, newBody) ==
    /\ cmd.pc = "generate"
    /\ pc = "done"
    /\ cmd' = IF result.rejected \/ ~ answered THEN exited(cmd, "1")
              ELSE [cmd EXCEPT
                       !.pc = "confirm",
                       !.finalTitle =
                           IF shouldEdit /\ editChoice \in { "title", "both" }
                           THEN newTitle ELSE result.draft.title,
                       !.finalBody =
                           IF shouldEdit /\ editChoice \in { "body", "both" }
                           THEN newBody ELSE result.draft.body]
    /\ UNCHANGED << pc, call, configFile, cfg, argv, outcome, invoked, configuredModel,
                    orch, thrown, console, result, tmpFiles, shell >>

\* Lines 150-169: the confirmation; on yes createPullRequest is called.
prCreate_Confirm(answered, shouldCreate) ==
    /\ cmd.pc = "confirm"
    /\ cmd' = IF ~ answered THEN exited(cmd, "1")
              ELSE IF ~ shouldCreate
                   THEN exited([cmd EXCEPT !.confirmed = "no"], "0")
              ELSE [cmd EXCEPT
                       !.confirmed = "yes",
                       !.pc = "creating",
                       !.created = Append(@, [title |-> cmd.finalTitle,
                                              body  |-> cmd.finalBody,
                                              head  |-> cmd.currentBranch,
                                              base  |-> cmd.baseBranch])]
    /\ UNCHANGED << pc, call, configFile, cfg, argv, outcome, invoked, configuredModel,
                    orch, thrown, console, result, tmpFiles, shell >>

\* Lines 164-177: createPullRequest settles; the action returns, or the
\* catch block exits with 1.
prCreate_Created(createOk) ==
    /\ cmd.pc = "creating"
    /\ cmd' = exited(cmd, IF createOk THEN "0" ELSE "1")
    /\ UNCHANGED << pc, call, configFile, cfg, argv, outcome, invoked, configuredModel,
                    orch, thrown, console, result, tmpFiles, shell >>

BranchNames == { "main", "master", "feature/12-login" }

OptionBases == { "", "master" }

PRCommitLists == { << >>, << "feat: add login" >>, << "feat: add login", "fix: typo" >> }

OptionIssues == { "", "12" }

EditChoices == { "title", "body", "both" }

InitPR ==
    /\ Init
    /\ configFile.state = "missing"

NextPR ==
    \/ \E isRepo \in BOOLEAN : prCreate_IsGitRepo(isRepo)
    \/ \E statusOk \in BOOLEAN : \E currentBranch \in BranchNames :
           \E optionBase \in OptionBases : \E gitBase \in { "main", "master" } :
               prCreate_Branches(statusOk, currentBranch, optionBase, gitBase)
    \/ \E isPushed \in BOOLEAN : prCreate_IsBranchPushed(isPushed)
    \/ \E pushOk \in BOOLEAN : prCreate_PushBranch(pushOk)
    \/ \E logOk \in BOOLEAN : \E commits \in PRCommitLists :
           prCreate_Commits(logOk, commits)
    \/ \E optionIssue \in OptionIssues : \E fetched \in BOOLEAN :
           prCreate_Issue(optionIssue, fetched, "Login fails", "Steps")
    \/ prCreate_Generate
    \/ \E o \in Outcomes : InvokerSettles(o)
    \/ PrimarySucceeds
    \/ PrimaryFails
    \/ PrimaryQuotaRetry
    \/ RetrySucceeds
    \/ RetryFails
    \/ \E answered \in BOOLEAN : \E shouldEdit \in BOOLEAN :
           \E editChoice \in EditChoices :
               prCreate_Edit(answered, shouldEdit, editChoice, "My title", "My body")
    \/ \E answered \in BOOLEAN : \E shouldCreate \in BOOLEAN :
           prCreate_Confirm(answered, shouldCreate)
    \/ \E createOk \in BOOLEAN : prCreate_Created(createOk)

SpecPR == InitPR /\ [][NextPR]_vars

-----------------------------------------------------------------------------
(* SpecConfig: ConfigService.set over the states of ~/.devflow/config.json *)
(* (src/commands/branch.ts, lines 164-204).  The file is held as the JSON  *)
(* value it parses to: "object" with its keys, "array", "primitive" (a     *)
(* number, string or boolean), "null", or "unparsable" / "missing".        *)

CONFIG_KEYS == { "githubToken", "copilotModel", "defaultBaseBranch" }

\* How many calls of set one run makes.
MaxSets == 2

\* JSON.parse(JSON.stringify(config, null, 2)) for the value set() holds
\* after `config[key] = value`: an object keeps all its keys; an array
\* keeps its elements and loses the named property.
writtenBy(cf, key, value) ==
    IF cf.state = "array" THEN cf
    ELSE LET config == load(cf).obj
         IN  [state |-> "object",
              obj   |-> [k \in DOMAIN config \cup { key } |->
                            IF k = key THEN value ELSE config[k]]]

\* set(key, value): load, assign, save.  The assignment throws a TypeError
\* on null and, in strict mode, on a primitive.  save ends as saved: "ok",
\* "writeFails" (mkdirSync or writeFileSync throws, file untouched) or
\* "chmodFails" (file written, chmodSync throws); save rethrows.
set(key, value, saved) ==
    /\ cfg.sets < MaxSets
    /\ pc = "idle"
    /\ LET assignThrows == configFile.state \in { "null", "primitive" }
       IN  /\ cfg' = [sets |-> cfg.sets + 1, key |-> key, value |-> value,
                      before |-> configFile,
                      threw |-> assignThrows \/ saved # "ok"]
           /\ configFile' = IF assignThrows \/ saved = "writeFails" THEN configFile
                            ELSE writtenBy(configFile, key, value)
    /\ UNCHANGED << pc, call, cmd, argv, outcome, invoked, configuredModel, orch,
                    thrown, console, result, tmpFiles, shell >>

ConfigStates ==
    ConfigFiles \cup { [state |-> "array", obj |-> NoKeys],
                       [state |-> "primitive", obj |-> NoKeys] }

ConfigValues == { "", "gpt-4.1", "ghp_new" }

InitConfig ==
    /\ pc = "idle"
    /\ call = NoCall
    /\ configFile \in ConfigStates
    /\ argv = << >>
    /\ outcome = NoOutcome
    /\ invoked = Pending
    /\ configuredModel = ""
    /\ orch = "Idle"
    /\ thrown = None
    /\ console = << >>
    /\ result = NoResult
    /\ tmpFiles = NoKeys
    /\ shell = << >>
    /\ cmd = NoCmd
    /\ cfg = NoCfg

NextConfig ==
    \E key \in CONFIG_KEYS : \E value \in ConfigValues :
        \E saved \in { "ok", "writeFails", "chmodFails" } : set(key, value, saved)

SpecConfig == InitConfig /\ [][NextConfig]_vars

-----------------------------------------------------------------------------
(* Properties of the entry points' results (checked under SpecTexts).      *)

\* C8 (as claimed): generateCommitMessage returns between 1 and 3 strings,
\* none of them empty, for every diff and every tool outcome.
C8_CommitTotality ==
    (pc = "done" /\ call.fn = "generateCommitMessage") =>
        /\ Len(result.messages) \in 1..3
        /\ \A i \in 1..Len(result.messages) : result.messages[i] # ""

\* The trimmed, non-blank lines of a response (lines 348-351).
responseLines(response) == SelectSeq(mapTrim(split(response)), nonEmpty)

\* A line that one of the three patterns of lines 357, 364 and 371-372
\* accepts, and the message pushed for it.
isMatchingLine(line) ==
    \/ matchNumbered(line).some
    \/ matchConventional(line)
    \/ matchBullet(line).some /\ startsWithBulletType(matchBullet(line).val)

messageOfLine(line) ==
    IF matchNumbered(line).some THEN stripMarkdown(trim(matchNumbered(line).val))
    ELSE IF matchConventional(line) THEN stripMarkdown(line)
    ELSE stripMarkdown(trim(matchBullet(line).val))

\* Index of the n-th matching line of lines.
nthMatch(lines, n) ==
    CHOOSE i \in 1..Len(lines) :
        /\ isMatchingLine(lines[i])
        /\ Cardinality({ j \in 1..i : isMatchingLine(lines[j]) }) = n

\* C16: when the tool has answered, generateCommitMessage returns the
\* messages of the first three matching lines of the response (of all of
\* them when fewer than three match), in the order of the lines and with
\* the non-matching lines skipped; when no line matches it returns the
\* commit fallback.
C16_FirstThreeInOrder ==
    (pc = "done" /\ call.fn = "generateCommitMessage" /\ orch = "Succeeded") =>
        LET lines == responseLines(invoked.val)
            n     == Cardinality({ i \in 1..Len(lines) : isMatchingLine(lines[i]) })
        IN  IF n = 0
            THEN result.messages = generateFallbackMessages(call.diff)
            ELSE result.messages =
                     [j \in 1..Min(n, 3) |-> messageOfLine(lines[nthMatch(lines, j)])]

\* A response with filler before its matching lines and more than three
\* of them: the first three are returned.
C16_Witness ==
    /\ pc = "done"
    /\ call.fn = "generateCommitMessage"
    /\ orch = "Succeeded"
    /\ invoked.val = "Sure!\n\n- feat: a\n* docs: b\nci: c\n4. d\n5. e"
    /\ result.messages = << "feat: a", "docs: b", "ci: c" >>

\* The type tokens of a conventional commit, as the direct pattern of
\* line 364 lists them.
beginsWithCommitType(text) ==
    \E i \in 1..Len(COMMIT_TYPES) : startsWith(toLowerCase(text), COMMIT_TYPES[i])

\* C17 (as claimed): a bullet line ("- " or "* ") among the first three
\* lines of the response whose text begins with feat, fix, docs, style,
\* refactor, test, chore, perf, ci or build is accepted: its text is one of
\* the returned messages.
C17_BulletVocabulary ==
    (pc = "done" /\ call.fn = "generateCommitMessage" /\ orch = "Succeeded") =>
        LET lines == responseLines(invoked.val)
        IN  \A i \in 1..Min(3, Len(lines)) :
                ( /\ matchBullet(lines[i]).some
                  /\ beginsWithCommitType(matchBullet(lines[i]).val) )
                    => \E j \in 1..Len(result.messages) :
                           result.messages[j] = stripMarkdown(trim(matchBullet(lines[i]).val))

\* The slug limited to the room that type and issue prefix leave: cut, and
\* a hyphen that the cut leaves at the end removed.
limitSlug(slug, type, issuePrefix) ==
    LET maxSlugLength == 50 - Len(type) - Len(issuePrefix) - 1
    IN  IF Len(slug) > maxSlugLength
        THEN stripTrailingHyphen(substring(slug, 0, maxSlugLength))
        ELSE slug

\* Each character of s kept when it is a lower-case letter or a digit,
\* turned into "-" when it is a hyphen or white space, and otherwise
\* turned into other.
slugChars(s, other) ==
    concat([i \in 1..Len(s) |->
               IF IsLower(Ch(s, i)) \/ IsDigit(Ch(s, i)) THEN Ch(s, i)
               ELSE IF Ch(s, i) = "-" \/ IsSpace(Ch(s, i)) THEN "-"
               ELSE other])

\* C18 (as claimed): the fallback branch name is type, "/", the issue
\* prefix and the slug of the description made by lowercasing, replacing
\* every character outside [a-z0-9-] with "-", collapsing the runs of "-",
\* trimming "-" at both ends and limiting the length.
C18_FallbackReplaces ==
    (pc = "done" /\ call.fn = "generateBranchName" /\ orch = "Failed") =>
        LET issuePrefix == IF call.issueNumber # "" THEN call.issueNumber \o "-" ELSE ""
            slug == stripEdgeHyphens(collapseHyphens(
                        slugChars(toLowerCase(call.description), "-")))
        IN  result.name = call.type \o "/" \o issuePrefix
                              \o limitSlug(slug, call.type, issuePrefix)

\* C18 (amended): the fallback branch name is type, "/", the issue prefix
\* and the slug of the description made by lowercasing, deleting every
\* character that is not a lower-case letter, a digit, a hyphen or white
\* space, turning white space into "-", collapsing the runs of "-",
\* removing one "-" at each end and limiting the length.
C18_FallbackDeletes ==
    (pc = "done" /\ call.fn = "generateBranchName" /\ orch = "Failed") =>
        LET issuePrefix == IF call.issueNumber # "" THEN call.issueNumber \o "-" ELSE ""
            slug == stripEdgeHyphens(collapseHyphens(
                        slugChars(toLowerCase(call.description), "")))
        IN  result.name = call.type \o "/" \o issuePrefix
                              \o limitSlug(slug, call.type, issuePrefix)

\* The fallback has named a branch for a description with punctuation
\* inside its words: the punctuation is gone, the words are not split.
C18_Witness ==
    /\ pc = "done"
    /\ call.fn = "generateBranchName"
    /\ orch = "Failed"
    /\ call.description = "Fix login/logout v2.0"
    /\ call.type = "feature"
    /\ call.issueNumber = "123"
    /\ result.name = "feature/123-fix-loginlogout-v20"

\* C19: in `pr create`, createPullRequest is called only in a run where
\* isBranchPushed returned true or pushBranch completed before the call;
\* it is not called in a run where the push failed, the current branch is
\* the base branch, no commit was found or the user declined.
C19_CreateOnlyAfterPush ==
    /\ Len(cmd.created) > 0 =>
           /\ cmd.isPushed = "true" \/ cmd.push = "ok"
           /\ cmd.currentBranch # cmd.baseBranch
           /\ Len(cmd.commits) > 0
           /\ cmd.confirmed = "yes"
    /\ ( \/ cmd.push = "failed"
         \/ cmd.confirmed = "no"
         \/ cmd.pc = "exited" /\ cmd.currentBranch = cmd.baseBranch
         \/ cmd.pc = "exited" /\ cmd.commits = << >> )
           => cmd.created = << >>

\* A run that found the branch missing on the remote, pushed it and then
\* called createPullRequest.
C19_Witness ==
    /\ cmd.isPushed = "false"
    /\ cmd.push = "ok"
    /\ Len(cmd.created) = 1
    /\ cmd.created[1].head = cmd.currentBranch

\* Index of the first line at or after from that begins with marker in
\* any letter case, 0 if there is none.
markedLine(lines, marker, from) ==
    LET Hits == { i \in from..Len(lines) : startsWith(toLowerCase(lines[i]), marker) }
    IN  IF Hits = {} THEN 0 ELSE CHOOSE i \in Hits : \A j \in Hits : i <= j

\* C20 (as claimed): when the response has a line beginning "TITLE:" (in
\* any letter case) and after it a line beginning "BODY:", the parsed
\* title is the text after "TITLE:" on that line without its markdown
\* markers and the parsed body is everything after "BODY:" (trimmed);
\* otherwise the title is the first non-blank line without its markdown
\* markers and the body is the remaining non-blank lines joined, when
\* there are any.
C20_MarkersOrFirstLine ==
    (pc = "done" /\ call.fn = "generatePRDescription" /\ orch = "Succeeded") =>
        LET parsed   == parsePRDescription(invoked.val)
            lines    == split(invoked.val)
            t        == markedLine(lines, "title:", 1)
            b        == IF t = 0 THEN 0 ELSE markedLine(lines, "body:", t + 1)
            nonBlank == SelectSeq(lines, notBlank)
        IN  IF t # 0 /\ b # 0
            THEN /\ parsed.title = stripMarkdown(trim(DropFirst(lines[t], 6)))
                 /\ parsed.body =
                        trim(join(<< DropFirst(lines[b], 5) >>
                                      \o SubSeq(lines, b + 1, Len(lines))))
            ELSE /\ nonBlank # << >> => parsed.title = stripMarkdown(nonBlank[1])
                 /\ Len(nonBlank) > 1 => parsed.body = join(Tail(nonBlank))

\* Number of the lines of text that start with the character c.
linesStarting(text, c) ==
    LET lines == split(text)
    IN  Cardinality({ i \in 1..Len(lines) : Len(lines[i]) >= 1 /\ Ch(lines[i], 1) = c })

\* C21: when generation fails, or the tool answers and no line of the
\* answer matches, generateCommitMessage returns the three fallback
\* messages in their order, with the number of lines of the whole diff that
\* start with "+" and with "-" (file headers included) in the first.
C21_CommitFallback ==
    ( /\ pc = "done"
      /\ call.fn = "generateCommitMessage"
      /\ \/ orch = "Failed"
         \/ /\ orch = "Succeeded"
            /\ \A i \in 1..Len(responseLines(invoked.val)) :
                   ~ isMatchingLine(responseLines(invoked.val)[i]) )
        => result.messages =
               << "feat: update files (+" \o toDecimal(linesStarting(call.diff, "+"))
                      \o " -" \o toDecimal(linesStarting(call.diff, "-")) \o ")",
                  "fix: improve code quality",
                  "chore: update documentation" >>

\* Generation has failed for a diff with 5 lines starting with "+" and 2
\* with "-", two of them file headers.
C21_Witness ==
    /\ pc = "done"
    /\ call.fn = "generateCommitMessage"
    /\ orch = "Failed"
    /\ call.diff = "+++ b/a.ts\n--- a/a.ts\n+x\n+y\n+z\n+w\n-q\n r"
    /\ result.messages[1] = "feat: update files (+5 -2)"

\* The positions in the console of the lines of one kind, in order.
positionsOf(kind) ==
    SelectSeq([i \in 1..Len(console) |-> i], LAMBDA i : console[i].kind = kind)

\* C22: the i-th cost notice printed names the model of the i-th
\* invocation, and no invocation is started without its notice; the tip to
\* change the default model is printed at most once, after both notices,
\* and only in a run whose second invocation, made with gpt-4.1, has
\* succeeded: never after a primary success and never after a failed retry.
C22_AdvisoryOrder ==
    LET costs == positionsOf("modelCost")
        tips  == positionsOf("switchTip")
    IN  /\ Len(costs) = Len(argv)
        /\ \A i \in 1..Len(argv) :
               /\ argv[i][1] = "--model"
               /\ console[costs[i]].model = argv[i][2]
        /\ Len(tips) <= 1
        /\ Len(tips) = 1 =>
               /\ orch = "Succeeded"
               /\ Len(argv) = 2
               /\ argv[2][2] = "gpt-4.1"
               /\ outcome.ok
               /\ \A i \in 1..Len(costs) : costs[i] < tips[1]
        /\ (orch = "Failed" \/ Len(argv) < 2) => tips = << >>

\* A quota failure under a premium model was retried with gpt-4.1, the
\* retry succeeded and the tip was printed.
C22_Witness ==
    /\ pc = "done"
    /\ orch = "Succeeded"
    /\ Len(argv) = 2
    /\ Len(positionsOf("switchTip")) = 1
    /\ Len(positionsOf("modelCost")) = 2
    /\ console[positionsOf("modelCost")[1]].model = "claude-opus-4.5"
    /\ console[positionsOf("modelCost")[2]].model = "gpt-4.1"

\* C23: an invocation that overflowed the output buffer fails with the
\* buffer message, and one that was killed at the timeout fails with the
\* timeout message, which suggests a faster model, whatever stderr and the
\* log hold; after either, the run ends in Failed without a retry.
C23_OverflowAndTimeout ==
    [][ ( /\ pc \in { "primarySettled", "retrySettled" }
          /\ ~ outcome.ok
          /\ outcome.code = "ERR_CHILD_PROCESS_STDIO_MAXBUFFER" \/ outcome.killed )
            => /\ invoked.threw
               /\ invoked.val =
                      IF outcome.code = "ERR_CHILD_PROCESS_STDIO_MAXBUFFER"
                      THEN "Copilot response exceeded buffer size"
                      ELSE "Copilot request timed out (60s). Try a faster model like gpt-4.1 or claude-haiku-4.5"
               /\ pc' = "done"
               /\ orch' = "Failed"
               /\ argv' = argv ]_vars

\* The primary invocation of a premium model timed out with a rate-limit
\* text on stderr and a quota error in the log: no retry was made.
C23_Witness ==
    /\ pc = "done"
    /\ orch = "Failed"
    /\ NonFreeConfigured
    /\ Len(argv) = 1
    /\ outcome.killed
    /\ outcome.code = ""
    /\ outcome.stderr = "Rate limit"
    /\ outcome.logs = QuotaLog
    /\ includes(invoked.val, "timed out")

\* C24: after an exit with an error status (no timeout, no overflow), the
\* latest log decides the message exactly when stderr is empty once
\* trimmed: the diagnostic of the log is then the message thrown, and a
\* quota diagnostic under a premium model starts the retry; without a
\* diagnostic the message is the generic exit-code message; with a
\* non-empty stderr the log plays no part.
C24_LogWhenStderrEmpty ==
    [][ ( /\ pc \in { "primarySettled", "retrySettled" }
          /\ PlainExit(outcome) )
            => LET logDiag == readLatestCopilotLog(outcome.logs)
                   generic == "Copilot CLI error: exit code "
                                  \o (IF outcome.code # "" THEN outcome.code ELSE "unknown")
                                  \o ". Check copilot auth: run \"copilot auth login\""
               IN  IF \A i \in 1..Len(outcome.stderr) : IsSpace(Ch(outcome.stderr, i))
                   THEN IF logDiag.some
                        THEN /\ invoked.val = logDiag.val
                             /\ ( /\ pc = "primarySettled"
                                  /\ NonFreeConfigured
                                  /\ includes(toLowerCase(logDiag.val), "premium request") )
                                    => pc' = "retry"
                        ELSE invoked.val = generic
                   ELSE /\ startsWith(invoked.val, "Copilot CLI error: ")
                        /\ logDiag.some => invoked.val # logDiag.val ]_vars

\* A premium model's primary invocation exited with nothing on stderr and
\* a quota error in the log: the log line is the failure
\* message the classifier is about to see.
C24_Witness ==
    /\ pc = "primarySettled"
    /\ NonFreeConfigured
    /\ PlainExit(outcome)
    /\ outcome.stderr = ""
    /\ outcome.logs = QuotaLog
    /\ invoked.threw
    /\ invoked.val = "You have exceeded your premium request allowance"

\* C25: after an exit with an error status and a non-empty stderr, the
\* message thrown is "Copilot CLI error: " followed by the stderr text when
\* that text is shorter than 200 characters and holds none of token, auth,
\* key, secret, password in any letter case; otherwise it is the generic
\* exit-code message, which holds nothing of the stderr text.
C25_SanitizedStderr ==
    ( /\ pc \in { "primarySettled", "retrySettled" }
      /\ PlainExit(outcome)
      /\ trim(outcome.stderr) # "" )
        => LET text == trim(outcome.stderr)
               safe == /\ Len(text) < 200
                       /\ \A w \in { "token", "auth", "key", "secret", "password" } :
                              ~ includes(toLowerCase(text), w)
           IN  IF safe
               THEN invoked.val = "Copilot CLI error: " \o text
               ELSE /\ invoked.val = "Copilot CLI error: exit code " \o outcome.code
                           \o ". Check copilot auth: run \"copilot auth login\""
                    /\ ~ includes(invoked.val, text)

\* An exit whose short stderr names a keyword in capitals: the generic
\* message was thrown.
C25_Witness ==
    /\ pc = "primarySettled"
    /\ PlainExit(outcome)
    /\ outcome.stderr = "quota for Auth"
    /\ invoked.val = "Copilot CLI error: exit code 1. Check copilot auth: run \"copilot auth login\""

\* C26: with nothing on stderr, the diagnostic comes from the process log
\* of the greatest name alone; a "failed to list models" error line in it
\* decides the message whatever error lines follow (access denied for a
\* status 403, authentication failed for 401); otherwise the last error
\* line is the message, unless it has 200 characters or more; a missing
\* directory, a directory without process log, an unreadable file or a
\* file without error line gives no diagnostic and the generic message.
C26_LatestLogRule ==
    ( /\ pc \in { "primarySettled", "retrySettled" }
      /\ PlainExit(outcome)
      /\ trim(outcome.stderr) = "" )
        => LET generic == "Copilot CLI error: exit code " \o outcome.code
                              \o ". Check copilot auth: run \"copilot auth login\""
               files   == { f \in outcome.logs.files :
                               /\ SubSeq(f.name, 1, 8) = "process-"
                               /\ SubSeq(f.name, Len(f.name) - 3, Len(f.name)) = ".log" }
           IN  IF ~ outcome.logs.exists \/ files = {}
               THEN invoked.val = generic
               ELSE
               LET latest == CHOOSE f \in files :
                                 \A g \in files : sortsBeforeOrEq(g.name, f.name)
                   lines  == IF latest.readable THEN errorLinesOf(latest.content)
                             ELSE << >>
                   Listed == { i \in 1..Len(lines) :
                                  includes(toLowerCase(lines[i]), "failed to list models") }
               IN  IF lines = << >> THEN invoked.val = generic
                   ELSE IF Listed # {}
                   THEN LET line == lines[CHOOSE i \in Listed : \A j \in Listed : i <= j]
                        IN  IF endsWith(line, "403")
                            THEN startsWith(invoked.val, "Copilot access denied (403).")
                            ELSE IF endsWith(line, "401")
                            THEN startsWith(invoked.val, "Copilot authentication failed (401).")
                            ELSE invoked.val = "Copilot model loading failed: " \o line
                   ELSE LET last == redactTokens(lines[Len(lines)])
                        IN  IF Len(last) < 200 THEN invoked.val = last
                            ELSE invoked.val = generic

\* The latest log held a model-list error with status 403 and a later
\* error line: the access-denied message was thrown.
C26_Witness ==
    /\ pc = "primarySettled"
    /\ PlainExit(outcome)
    /\ outcome.stderr = ""
    /\ \E f \in outcome.logs.files :
           f.content = "2 [ERROR] Failed to list models: 403\n2 [ERROR] boom"
    /\ startsWith(invoked.val, "Copilot access denied (403).")

\* The heading of the subsection a commit message belongs to.
headingOf(message) ==
    IF MatchAt(message, 1, "feat") THEN "Features"
    ELSE IF MatchAt(message, 1, "fix") THEN "Fixes"
    ELSE IF MatchAt(message, 1, "chore") THEN "Chores"
    ELSE "Other Changes"

\* The subsection of one heading: its commits as bullets in commit order,
\* and nothing when no commit belongs to it.
subsectionOf(heading, commits) ==
    LET bullets == concat([i \in 1..Len(commits) |->
                              IF headingOf(commits[i]) = heading
                              THEN "- " \o commits[i] \o "\n" ELSE ""])
    IN  IF bullets = "" THEN "" ELSE "### " \o heading \o "\n" \o bullets \o "\n"

\* The Changes section as C27 describes it.
changesOf(commits) ==
    "\n\n## Changes\n\n"
        \o subsectionOf("Features", commits) \o subsectionOf("Fixes", commits)
        \o subsectionOf("Chores", commits) \o subsectionOf("Other Changes", commits)
        \o "\n"

\* Number of the places of s where pat occurs.
occurrences(s, pat) == Cardinality({ i \in 1..Len(s) : MatchAt(s, i, pat) })

\* C27 (as claimed): the smart fallback's title is the first commit's
\* message, or "Update" when there are no commits, and its Changes section
\* lists every commit once, under Features, Fixes, Chores or Other Changes
\* by its prefix, in commit order, without a subsection for an empty group.
C27_SmartFallbackFirstMessage ==
    (pc = "done" /\ call.fn = "generatePRDescription" /\ orch = "Failed") =>
        /\ result.draft.title =
               IF call.commits = << >> THEN "Update" ELSE call.commits[1]
        /\ includes(result.draft.body, changesOf(call.commits))
        /\ occurrences(result.draft.body, "\n- ") = Len(call.commits)

\* C27 (amended): the smart fallback's title is the first commit's message
\* when there is one and it is not empty, and "Update" otherwise; its
\* Changes section lists every commit once, under Features, Fixes, Chores
\* or Other Changes by its prefix, in commit order, without a subsection
\* for an empty group.
C27_SmartFallback ==
    (pc = "done" /\ call.fn = "generatePRDescription" /\ orch = "Failed") =>
        /\ result.draft.title =
               IF call.commits = << >> \/ call.commits[1] = ""
               THEN "Update" ELSE call.commits[1]
        /\ includes(result.draft.body, changesOf(call.commits))
        /\ occurrences(result.draft.body, "\n- ") = Len(call.commits)

\* The fallback for four commits, one of each group, not in the order of
\* the subsections.
C27_Witness ==
    /\ pc = "done"
    /\ call.fn = "generatePRDescription"
    /\ orch = "Failed"
    /\ call.commits = << "fix: a", "wip", "feat: b", "chore: c" >>
    /\ result.draft.title = "fix: a"
    /\ includes(result.draft.body,
                "### Features\n- feat: b\n\n### Fixes\n- fix: a\n\n### Chores\n- chore: c\n\n### Other Changes\n- wip\n\n")

\* C28: whatever the commits, the issue context and the tool's outcome,
\* generatePRDescription returns a draft with a non-empty title and a body
\* of more than 50 characters.
C28_DraftUsable ==
    (pc = "done" /\ call.fn = "generatePRDescription") =>
        /\ ~ result.rejected
        /\ result.draft.title # ""
        /\ Len(result.draft.body) > 50

\* The tool answered with a title and a body of exactly 50 characters for
\* an empty commit list: the fallback draft, titled "Update", was returned.
C28_Witness ==
    /\ pc = "done"
    /\ call.fn = "generatePRDescription"
    /\ orch = "Succeeded"
    /\ call.commits = << >>
    /\ invoked.val = "TITLE: Add login\nBODY:\n" \o repeat("x", 50)
    /\ result.draft.title = "Update"
    /\ Len(result.draft.body) > 50

\* The first line of a response, trimmed.
firstLineOf(response) == trim(split(trim(response))[1])

\* name is type, "/", the issue prefix and a non-empty slug of lower-case
\* letters, digits and single hyphens, none at either end, and has at most
\* 50 characters.
isRequestedForm(name, type, issueNumber) ==
    LET prefix == type \o "/" \o (IF issueNumber # "" THEN issueNumber \o "-" ELSE "")
        slug   == DropFirst(name, Len(prefix))
    IN  /\ startsWith(name, prefix)
        /\ slug # ""
        /\ Len(name) <= 50
        /\ \A i \in 1..Len(slug) : IsLower(Ch(slug, i)) \/ IsDigit(Ch(slug, i)) \/ Ch(slug, i) = "-"
        /\ ~ includes(slug, "--")
        /\ Ch(slug, 1) # "-"
        /\ Ch(slug, Len(slug)) # "-"

\* C29 (as claimed): when the first line of the tool's response is already
\* a name of the requested form for the type and issue number of the call,
\* generateBranchName returns that name, and sanitizing the returned name
\* again gives the same name.
C29_EchoUnchanged ==
    ( /\ pc = "done"
      /\ call.fn = "generateBranchName"
      /\ orch = "Succeeded"
      /\ isRequestedForm(firstLineOf(invoked.val), call.type, call.issueNumber) )
        => /\ result.name = firstLineOf(invoked.val)
           /\ sanitizeBranchName(result.name, call.type,
                                 IF call.issueNumber # "" THEN call.issueNumber \o "-" ELSE "")
                  = result.name

\* C30 (as claimed): from every state of the configuration file, after
\* set(k, v) has returned, get(k) is v and each of the other keys has the
\* value it had before the call.
C30_SetChangesOnlyKey ==
    (cfg.sets > 0 /\ ~ cfg.threw) =>
        /\ get(configFile, cfg.key) = Returned(Some(cfg.value))
        /\ \A k \in { "githubToken", "copilotModel", "defaultBaseBranch" } \ { cfg.key } :
               get(configFile, k) = get(cfg.before, k)

\* C9: generatePRDescription returns the parsed draft when its title is
\* non-empty and its body is longer than 50 characters, and the smart
\* fallback otherwise; a body of exactly 50 characters is rejected, one of
\* 51 with a non-empty title is accepted.
C9_UsabilityThreshold ==
    (pc = "done" /\ call.fn = "generatePRDescription" /\ orch = "Succeeded") =>
        LET parsed == parsePRDescription(invoked.val)
        IN  IF parsed.title # "" /\ Len(parsed.body) >= 51
            THEN result.draft = parsed
            ELSE result.draft = generateSmartFallback(call.commits, call.issueContext)

C9_Witness ==
    /\ pc = "done"
    /\ call.fn = "generatePRDescription"
    /\ orch = "Succeeded"
    /\ parsePRDescription(invoked.val).title # ""
    /\ Len(parsePRDescription(invoked.val).body) = 50
    /\ result.draft # parsePRDescription(invoked.val)
    /\ result.draft = generateSmartFallback(call.commits, call.issueContext)

\* C10 (as claimed): the name returned by generateBranchName is at most 50
\* characters long for every description, type and issue number.
C10_BranchNameLength ==
    (pc = "done" /\ call.fn = "generateBranchName") => Len(result.name) <= 50

\* The part of a branch name after "type/".
AfterType(name, type) == DropFirst(name, Len(type) + 1)

\* C11 (as claimed): the name returned by generateBranchName is the type, a
\* slash, and a non-empty text of characters [a-z0-9-] (an optional
\* "digits-" prefix and the slug) that holds no "--" and neither starts nor
\* ends with "-".
C11_BranchNameFormat ==
    (pc = "done" /\ call.fn = "generateBranchName") =>
        LET rest == AfterType(result.name, call.type)
        IN  /\ startsWith(result.name, call.type \o "/")
            /\ rest # ""
            /\ \A i \in 1..Len(rest) : IsSlugChar(Ch(rest, i))
            /\ ~ includes(rest, "--")
            /\ Ch(rest, 1) # "-"
            /\ Ch(rest, Len(rest)) # "-"

\* Token-like texts of the raw tool errors.
SecretTokens == { "ghp_abc123" }

\* The raw error of the subprocess (its stderr, or a file of its log
\* directory) holds the text t.
RawErrorHolds(t) ==
    \/ includes(outcome.stderr, t)
    \/ \E f \in outcome.logs.files : includes(f.content, t)

\* C12 (as claimed): when the raw tool error holds a token-like text, the
\* message execCopilotPrompt throws, which the entry points print, does not
\* hold that text.
C12_SecretRedaction ==
    \A t \in SecretTokens :
        (pc \in { "primarySettled", "retrySettled" } /\ ~ outcome.ok
             /\ RawErrorHolds(t))
            => ~ includes(invoked.val, t)

-----------------------------------------------------------------------------
(* Properties of the invocation (checked under SpecShell).                 *)

\* C13 (as claimed): every started invocation receives the prompt, as the
\* entry point built it, as the one argument after --prompt, and bash runs
\* no command that comes from the prompt.
C13_PromptIsOneArgument ==
    /\ \A i \in 1..Len(argv) :
           LET n == Len(argv[i])
           IN  /\ n >= 2
               /\ argv[i][n - 1] = "--prompt"
               /\ argv[i][n] = promptOf(call)
    /\ \A j \in 1..Len(shell) : \A k \in 1..Len(shell[j].ran) :
           shell[j].ran[k] = "cat " \o shell[j].tmpFile

\* The identifiers of the returned descriptors, in order.
ModelIds == [i \in 1..Len(result.models) |-> result.models[i].id]

\* C15 (as claimed): fetchAvailableModels never throws and returns a
\* non-empty list; when `copilot --help` fails, times out, lists no choices
\* for --model or lists choices without a quoted identifier, the list is
\* the descriptors of claude-sonnet-4.5, claude-haiku-4.5 and gpt-4.1; an
\* identifier that the catalog does not hold has the tag "New".
C15_DiscoveryFallsBack ==
    (pc = "done" /\ call.fn = "fetchAvailableModels") =>
        /\ ~ result.rejected
        /\ thrown = None
        /\ Len(result.models) > 0
        /\ ( \/ ~ outcome.ok
             \/ outcome.stdout \in HelpWithoutModelChoices
             \/ outcome.stdout \in HelpWithUnquotedChoices )
               => ModelIds = << "claude-sonnet-4.5", "claude-haiku-4.5", "gpt-4.1" >>
        /\ \A i \in 1..Len(result.models) :
               result.models[i].id \notin DOMAIN MODEL_CATALOG
                   => result.models[i].tag = "New"

\* C14 (as claimed): no run of a generation call ends with the file that
\* staged its prompt still present.
C14_TempFileRemoved ==
    pc = "done" => DOMAIN tmpFiles = {}

====
